---- MODULE Spec2Model ----
(***************************************************************************)
(* LeetMentor: the background service workers of the extension, modelled   *)
(* as state machines over chrome.storage.local and the worker's memory.    *)
(*                                                                         *)
(* The repository holds three alternative background scripts; one of them  *)
(* is installed in a run (variable impl):                                  *)
(*   "persisted"   src/background.js            counts in leetmentor_hints_map *)
(*   "serverfirst" src/extension/background.js  counts in hintsGivenMap    *)
(*   "ratelimit"   src/unnamed/part_001         cache + rate limiter       *)
(*                                                                         *)
(* A step of the model is one turn of the JavaScript event loop: a message *)
(* handler runs from its entry, or from the callback that resumes it, to   *)
(* its next await.  A chrome.storage operation takes effect in the step    *)
(* that delivers its callback.  JavaScript objects are functions with a    *)
(* partial domain: a missing field is a field outside DOMAIN.              *)
(***************************************************************************)
EXTENDS Integers, Sequences, FiniteSets, Bags, TLC

VARIABLES
  impl,        \* which background script is installed
  storage,     \* chrome.storage.local: a partial map from storage key to value
  mem,         \* the worker's in-memory state (lost when the worker restarts)
  clock,       \* Date.now(), in milliseconds
  handlers,    \* bag of asynchronous message handlers suspended at an await
  popup,       \* the popup page: saveAllowSendToggle between its get and its set
  resp,        \* the sendResponse(...) argument of this step, or None
  pageMsg,     \* the chrome.tabs.sendMessage(show_hint_in_page) of this step, or None
  post,        \* the fetch(...) POST issued in this step, or None
  reply,       \* how the awaited fetch ended in this step, or None
  event,       \* the arriving message, timer or tab event handled in this step, or None
  userAllows,  \* history: the consent the user chose last (FALSE before any choice)
  delivered,   \* history, persisted-count: hints delivered per problem since the last reset
  shown,       \* history, server-first: hints shown per tab since the last reset
  resets,      \* history: reset_hints completed in a row just now (0, 1, or 2 and more)
  budget,      \* messages and user actions the run may still take
  fetched      \* history, rate-limited: per problem, when its last fetch was started (0: never)

vars == <<impl, storage, mem, clock, handlers, popup, resp, pageMsg, post, reply, event,
          userAllows, delivered, shown, resets, budget, fetched>>

----------------------------------------------------------------------------
(* Bounds of the model *)

\* handlers that may be suspended at an await at the same time
MaxInflight == 2
\* messages (request_hint, request_code_snippet, reset_hints) a run handles
MaxRequests == 4
\* settings actions the user takes in a run
MaxUserActions == 2
\* restarts of the service worker in a run
MaxRestarts == 1
\* clock ticks in a run
MaxTicks == 1
\* times the clock advances in a run of the session tracker
MaxElapses == 3
\* lines of the snippets the excerpts are taken of
MaxSnippetLines == 4
\* failures a tab of the rate-limited background records in a run
MaxFailures == 2

----------------------------------------------------------------------------
(* JavaScript objects *)

EmptyObj == [k \in {} |-> TRUE]
None == [none |-> TRUE]

Has(o, k) == k \in DOMAIN o
Get(o, k, dflt) == IF k \in DOMAIN o THEN o[k] ELSE dflt
Put(o, k, v) == [x \in DOMAIN o \cup {k} |-> IF x = k THEN v ELSE o[x]]
\* variant of the removal that creates the keys that were absent
DelOrCreate(o, ks) ==
  [x \in (DOMAIN o \ ks) \cup (ks \ DOMAIN o) |-> IF x \in DOMAIN o THEN o[x] ELSE EmptyObj]

Del(o, ks) == [x \in DOMAIN o \ ks |-> o[x]]

\* Math.min
Min(a, b) == IF a < b THEN a ELSE b

----------------------------------------------------------------------------
(* Program constants *)

MAX_HINTS_PER_PROBLEM == 3

DEFAULT_SERVER == "http://localhost:3000/hint"
CUSTOM_SERVER == "https://hints.example.org/hint"
ServerUrls == {DEFAULT_SERVER, CUSTOM_SERVER}

\* variant of the defaults with consent switched on
DefaultsAllowing == [allowSendCodeToServer |-> TRUE, serverUrl |-> DEFAULT_SERVER]

DEFAULT_SETTINGS == [allowSendCodeToServer |-> FALSE, serverUrl |-> DEFAULT_SERVER]

Tabs == {1, 2}
NoTab == 0

\* Date.now() when the run starts: later than every window the code measures
START_MS == 1000000
\* the clock advances in steps of half a minute
TICK_MS == 30000

----------------------------------------------------------------------------
(* The content script's answers to collect_context *)

TwoSumUrl == "https://leetcode.com/problems/two-sum/"
ParenUrl == "https://leetcode.com/problems/valid-parentheses/"

\* a text is the sequence of its lines; the empty string is the empty sequence
Code == <<"def twoSum(nums, target):", "", "  return []">>
NoCode == <<>>

\* text.split(/\r?\n/): the empty string splits into one empty line
Split(text) == IF text = <<>> THEN <<"">> ELSE text
\* lines.join('\n'): no line, or one empty line, joins to the empty string
Join(lines) == IF lines = <<"">> THEN <<>> ELSE lines

HintContexts ==
  << [problemId |-> "two-sum", url |-> TwoSumUrl, snippet |-> Code, failure |-> ""],
     [problemId |-> "", url |-> ParenUrl, snippet |-> NoCode,
      failure |-> "IndexError: list index out of range"],
     [problemId |-> "", url |-> ParenUrl, snippet |-> Code,
      failure |-> "Time Limit Exceeded"] >>

\* lines a snippet is made of: plain, blank, whitespace only, indented, and a line of
\* more than 200 characters
ExcerptLines ==
  <<"a", "", " ", "  return []", "total = total + a + a + a + ... (a line of 250 characters)">>

\* the i-th snippet of MaxSnippetLines lines over ExcerptLines
SnippetNo(i) ==
  [j \in 1..MaxSnippetLines |->
     ExcerptLines[((i \div (Len(ExcerptLines) ^ (j - 1))) % Len(ExcerptLines)) + 1]]

\* contexts that differ in their snippet: a, b, (blank), c, d and every snippet of
\* MaxSnippetLines lines
SnippetContexts ==
  << [problemId |-> "two-sum", url |-> TwoSumUrl, snippet |-> <<"a", "b", "", "c", "d">>,
      failure |-> ""] >>
  \o [i \in 1..(Len(ExcerptLines) ^ MaxSnippetLines) |->
        [problemId |-> "two-sum", url |-> TwoSumUrl, snippet |-> SnippetNo(i - 1),
         failure |-> ""]]

\* what a content script may answer to collect_context
Contexts == HintContexts \o SnippetContexts

NoCtx == 0
\* the contexts the requests for hints draw from, and those for excerpts
CtxIds == DOMAIN HintContexts
SnippetCtxIds == DOMAIN Contexts \ CtxIds

\* const problemId = ctx.problemId || ctx.url || 'unknown'
ProblemKey(c) ==
  IF c.problemId # "" THEN c.problemId
  ELSE IF c.url # "" THEN c.url
  ELSE "unknown"

Keys == {ProblemKey(Contexts[i]) : i \in CtxIds}

----------------------------------------------------------------------------
(* Strings: toLowerCase and includes, tabulated over the strings of Contexts *)

Lower(s) ==
  CASE s = "IndexError: list index out of range" -> "indexerror: list index out of range"
    [] s = "Time Limit Exceeded" -> "time limit exceeded"
    [] OTHER -> s

\* the needles of generateHint that occur in a (lower-case) string
Needles(s) ==
  CASE s = "two-sum" -> {"two-sum"}
    [] s = TwoSumUrl -> {"two-sum"}
    [] s = "indexerror: list index out of range" -> {"index", "out of range", "indexerror"}
    [] s = "time limit exceeded" -> {"time limit"}
    [] OTHER -> {}

Includes(s, needle) == needle \in Needles(s)

\* String.prototype.trim on the lines of the snippets
Trim(l) ==
  CASE l = "  return []" -> "return []"
    [] l = " " -> ""
    [] OTHER -> l

\* a line of more than 200 characters, and its first 200 characters followed by '...'
LONG_LINE == "total = total + a + a + a + ... (a line of 250 characters)"
LONG_LINE_CUT == "total = total + a + a + a + ... (its first 200 characters)..."

\* l.length > 200 ? l.slice(0, 200) + '...' : l
Cap200(l) == IF l = LONG_LINE THEN LONG_LINE_CUT ELSE l

\* variant of slice(0, n) that takes one element less
TakeOneLess(seq, n) == SubSeq(seq, 1, IF Len(seq) < n - 1 THEN Len(seq) ELSE n - 1)

\* the first n elements of a sequence: slice(0, n)
Take(seq, n) == SubSeq(seq, 1, IF Len(seq) < n THEN Len(seq) ELSE n)

----------------------------------------------------------------------------
(* chrome.storage.local *)

SETTINGS == "leetmentor_settings"
HINTS_MAP == "leetmentor_hints_map"
HINT_CACHE == "leetmentor_hint_cache"

\* s.leetmentor_settings || {}
StoredSettings == Get(storage, SETTINGS, EmptyObj)
\* s.leetmentor_hints_map || {}
StoredHints == Get(storage, HINTS_MAP, EmptyObj)
\* Number(hintCounts[problemId] || 0)
CountOf(map, key) == Get(map, key, 0)

\* !!s.allowSendCodeToServer
Allows(s) == Get(s, "allowSendCodeToServer", FALSE)

----------------------------------------------------------------------------
(* The backend *)

SERVER_HINT == "Try using a hash map to store seen numbers and check complements in O(1)."
SERVER_SNIPPET == <<"seen = {}", "for i, x in enumerate(nums):">>

\* JSON bodies of a 2xx reply: {hint}, {snippet}, {} and null
JsonNull == [null |-> TRUE]
Bodies == {[hint |-> SERVER_HINT], [snippet |-> SERVER_SNIPPET], EmptyObj, JsonNull}

\* how an awaited fetch ends: it rejects, the status is not 2xx, resp.json() rejects,
\* or a JSON body arrives
FetchOutcomes ==
  {[ok |-> FALSE, why |-> w] : w \in {"network_error", "http_500", "invalid_json"}}
    \cup {[ok |-> TRUE, body |-> b] : b \in Bodies}

----------------------------------------------------------------------------
(* Bags of handlers *)

RECURSIVE Copies(_, _)
Copies(B, S) ==
  IF S = {} THEN 0
  ELSE LET h == CHOOSE x \in S : TRUE IN B[h] + Copies(B, S \ {h})

Inflight == BagToSet(handlers)
Spawn(h) == handlers' = handlers (+) SetToBag({h})
Resume(h, h2) == handlers' = (handlers (-) SetToBag({h})) (+) SetToBag({h2})
Finish(h) == handlers' = handlers (-) SetToBag({h})

Quiet == resp' = None /\ pageMsg' = None /\ post' = None

ZeroDelivered == [k \in Keys |-> 0]
ZeroShown == [t \in Tabs |-> 0]

\* a message is accepted / the user acts, within the bounds of the run
Accept ==
  /\ BagCardinality(handlers) < MaxInflight
  /\ budget.requests > 0
  /\ budget' = [budget EXCEPT !.requests = @ - 1]
UserActs ==
  /\ budget.user > 0
  /\ budget' = [budget EXCEPT !.user = @ - 1]

NoSinceOff(h) == IF "sinceOff" \in DOMAIN h THEN [h EXCEPT !.sinceOff = FALSE] ELSE h

\* the bag B with NoSinceOff applied to each of its handlers
ClearSinceOff(B) ==
  LET img == {NoSinceOff(h) : h \in BagToSet(B)}
  IN [x \in img |-> Copies(B, {h \in BagToSet(B) : NoSinceOff(h) = x})]

\* the user's consent action is recorded; a handler that started after a switch-off
\* is no longer "after the switch-off" once consent is switched on again
UserSets(checked) ==
  /\ userAllows' = checked
  /\ handlers' = IF checked THEN ClearSinceOff(handlers) ELSE handlers

\* the in-memory state of a freshly started worker
InitMem(i) ==
  CASE i = "serverfirst" -> [hintsGivenMap |-> EmptyObj]
    [] i = "ratelimit" -> [persistedHints |-> EmptyObj, hintCache |-> EmptyObj,
                           recentServerCalls |-> EmptyObj,
                           settings |-> [allowSendCodeToServer |-> FALSE],
                           load |-> "issued", tabState |-> EmptyObj]
    [] i = "persisted" -> [tabState |-> EmptyObj]
    [] OTHER -> EmptyObj

----------------------------------------------------------------------------
(* src/background.js: the persisted-count background *)

\* ensureSettings, lines 340-344: the stored object with the defaults filled in
FillDefaults(s) ==
  [k \in DOMAIN s \cup DOMAIN DEFAULT_SETTINGS |->
     IF k \in DOMAIN s THEN s[k] ELSE DEFAULT_SETTINGS[k]]

\* variant of generateHint without the two-sum rule
generateHintNoTwoSum(c) ==
  LET fail == Lower(c.failure)
  IN IF Includes(fail, "index") \/ Includes(fail, "out of range")
          \/ Includes(fail, "indexerror")
       THEN "Hint: Check your indices and boundary conditions - arrays are 0-indexed."
     ELSE "Hint: Break the problem into smaller subproblems. Write down examples and consider data structures that give O(1) lookups."

generateHint(c) ==
  LET p == Lower(c.problemId)
      fail == Lower(c.failure)
  IN IF Includes(p, "two-sum") \/ (c.url # "" /\ Includes(Lower(c.url), "two-sum"))
       THEN "Hint: Use a hash map to store seen values and check complements in one pass."
     ELSE IF Includes(fail, "index") \/ Includes(fail, "out of range")
               \/ Includes(fail, "indexerror")
       THEN "Hint: Check your indices and boundary conditions - arrays are 0-indexed."
     ELSE IF Includes(fail, "time limit") \/ Includes(fail, "tle")
       THEN "Hint: Consider using a more efficient data structure or reduce nested loops (aim for O(n) or O(n log n))."
     ELSE "Hint: Break the problem into smaller subproblems. Write down examples and consider data structures that give O(1) lookups."

\* variant of the cap test that lets a count of 3 pass
CapReachedAbove(current) == current > MAX_HINTS_PER_PROBLEM

\* the cap test of the request_hint handler, line 567
CapReached(current) == current >= MAX_HINTS_PER_PROBLEM

\* variant of the cap response that carries a hint text
AskForCodeWithHint(kind) ==
  [type |-> kind, ok |-> TRUE, action |-> "ask_for_code", hint |-> "Reached Maximum hint limit."]

\* the response at the cap, line 570
AskForCodeResponse(kind) == [type |-> kind, ok |-> TRUE, action |-> "ask_for_code"]

PNew(kind, tabId) ==
  [kind |-> kind,
   pc |-> IF tabId = NoTab THEN "query" ELSE "collect",
   tab |-> tabId, ctx |-> NoCtx, counts |-> EmptyObj, settings |-> EmptyObj,
   hintText |-> "", sinceOff |-> ~userAllows]

\* onMessage for request_hint / request_code_snippet: the target tab is msg.tabId,
\* else the sender's tab, else (after a chrome.tabs.query) the active tab
PStart(kind, msgTab, senderTab) ==
  /\ reply' = None
  /\ event' = None
  /\ resets' = 0
  /\ UNCHANGED fetched
  /\ impl = "persisted"
  /\ Accept
  /\ Spawn(PNew(kind, IF msgTab # NoTab THEN msgTab ELSE senderTab))
  /\ Quiet
  /\ UNCHANGED <<impl, mem, clock, storage, popup, userAllows, delivered, shown>>

\* the chrome.tabs.query callback
PQuery(h, active) ==
  /\ reply' = None
  /\ event' = None
  /\ resets' = 0
  /\ UNCHANGED fetched
  /\ impl = "persisted" /\ h.pc = "query"
  /\ IF active = NoTab
       THEN /\ Finish(h)
            /\ resp' = [type |-> h.kind, ok |-> FALSE, error |-> "no_tab"]
       ELSE /\ Resume(h, [h EXCEPT !.pc = "collect", !.tab = active])
            /\ resp' = None
  /\ pageMsg' = None /\ post' = None
  /\ UNCHANGED <<impl, mem, clock, storage, popup, userAllows, delivered, shown, budget>>

\* the collect_context callback: the content script's answer c, or none
PCollect(h, c) ==
  /\ reply' = None
  /\ event' = None
  /\ resets' = 0
  /\ UNCHANGED fetched
  /\ impl = "persisted" /\ h.pc = "collect"
  /\ IF c = NoCtx
       THEN /\ Finish(h)
            /\ resp' = [type |-> h.kind, ok |-> FALSE, error |-> "no_context"]
       ELSE /\ Resume(h, [h EXCEPT !.ctx = c,
                            !.pc = IF h.kind = "request_hint" THEN "counts" ELSE "es_get"])
            /\ resp' = None
  /\ pageMsg' = None /\ post' = None
  /\ UNCHANGED <<impl, mem, clock, storage, popup, userAllows, delivered, shown, budget>>

\* getHintCounts resolves: the cap check on the count just read
PCounts(h) ==
  /\ reply' = None
  /\ event' = None
  /\ resets' = 0
  /\ UNCHANGED fetched
  /\ impl = "persisted" /\ h.kind = "request_hint" /\ h.pc = "counts"
  /\ LET hintCounts == StoredHints
         current == CountOf(hintCounts, ProblemKey(Contexts[h.ctx]))
     IN IF CapReached(current)
          THEN /\ Finish(h)
               /\ resp' = AskForCodeResponse(h.kind)
          ELSE /\ Resume(h, [h EXCEPT !.pc = "es_get", !.counts = hintCounts])
               /\ resp' = None
  /\ pageMsg' = None /\ post' = None
  /\ UNCHANGED <<impl, mem, clock, storage, popup, userAllows, delivered, shown, budget>>

\* ensureSettings, first half: storageGet resolves and the defaults are filled in
PEsGet(h) ==
  /\ reply' = None
  /\ event' = None
  /\ resets' = 0
  /\ UNCHANGED fetched
  /\ impl = "persisted" /\ h.pc \in {"es_get", "scs_get"}
  /\ Resume(h, [h EXCEPT !.settings = FillDefaults(StoredSettings),
                         !.pc = IF h.pc = "es_get" THEN "es_set" ELSE "scs_set"])
  /\ Quiet
  /\ UNCHANGED <<impl, mem, clock, storage, popup, userAllows, delivered, shown, budget>>

\* the POST body of sendCodeToServer: JSON.stringify(context)
PPayload(h) ==
  LET c == Contexts[h.ctx]
      base == [problemId |-> IF h.kind = "request_hint" THEN ProblemKey(c) ELSE c.problemId,
               snippet |-> c.snippet, url |-> c.url, failure |-> c.failure]
  IN [url |-> h.settings.serverUrl,
      body |-> IF h.kind = "request_hint" THEN base ELSE Put(base, "request", "snippet")]

\* the local excerpt of request_code_snippet, lines 662-674
PLocalExcerpt(snippet) ==
  LET lines == Split(snippet)
      trimmed == [i \in DOMAIN lines |-> Trim(lines[i])]
      NonEmpty(l) == l # ""
      raw == SelectSeq(trimmed, NonEmpty)
      excerpt == IF Len(raw) = 0 THEN <<>>
                 ELSE IF Len(raw) <= 3 THEN Join(raw)
                 ELSE Join(Take(raw, 3))
      cut == Split(excerpt)
  IN Join([i \in DOMAIN cut |-> Cap200(cut[i])])

\* request_hint once the hint text is known: the incremented map is handed to
\* setHintCounts (lines 589-595)
PToWrite(h, hintText) ==
  /\ Resume(h, [h EXCEPT !.pc = "write", !.hintText = hintText, !.settings = EmptyObj])
  /\ Quiet

\* request_code_snippet falls back to the local excerpt and responds (lines 662-676)
PRespondExcerpt(h) ==
  /\ Finish(h)
  /\ resp' = [type |-> h.kind, ok |-> TRUE,
              snippet |-> PLocalExcerpt(Contexts[h.ctx].snippet)]
  /\ pageMsg' = None /\ post' = None

PLocalCountingExcerpts(h) == PToWrite(h, generateHint(Contexts[h.ctx]))

\* the handler continues without a server answer
PLocal(h) ==
  IF h.kind = "request_hint"
    THEN PToWrite(h, generateHint(Contexts[h.ctx]))
    ELSE PRespondExcerpt(h)

\* ensureSettings, second half, as called by the handler (lines 575, 648): storageSet
\* resolves; without consent the handler goes on locally, with consent it enters
\* sendCodeToServer, which calls ensureSettings again
PEsSet(h) ==
  /\ reply' = None
  /\ event' = None
  /\ resets' = 0
  /\ UNCHANGED fetched
  /\ impl = "persisted" /\ h.pc = "es_set"
  /\ storage' = Put(storage, SETTINGS, h.settings)
  /\ IF h.settings.allowSendCodeToServer
       THEN Resume(h, [h EXCEPT !.pc = "scs_get", !.settings = EmptyObj]) /\ Quiet
       ELSE PLocal(h)
  /\ UNCHANGED <<impl, mem, clock, popup, userAllows, delivered, shown, budget>>

\* ensureSettings, second half, as called by sendCodeToServer (lines 426-438): the
\* POST is issued only if the settings just read allow it and name a server
PScsSet(h) ==
  /\ reply' = None
  /\ event' = None
  /\ resets' = 0
  /\ UNCHANGED fetched
  /\ impl = "persisted" /\ h.pc = "scs_set"
  /\ storage' = Put(storage, SETTINGS, h.settings)
  /\ IF h.settings.allowSendCodeToServer /\ h.settings.serverUrl # ""
       THEN /\ Resume(h, [h EXCEPT !.pc = "fetch", !.settings = EmptyObj])
            /\ post' = PPayload(h)
            /\ resp' = None /\ pageMsg' = None
       ELSE PLocal(h)
  /\ UNCHANGED <<impl, mem, clock, popup, userAllows, delivered, shown, budget>>

\* the fetch of sendCodeToServer ends (lines 439-445, 580-591, 651-659)
PFetch(h, outcome) ==
  /\ reply' = outcome
  /\ event' = None
  /\ resets' = 0
  /\ UNCHANGED fetched
  /\ impl = "persisted" /\ h.pc = "fetch"
  /\ IF h.kind = "request_hint"
       THEN LET hintText == IF outcome.ok THEN Get(outcome.body, "hint", "") ELSE ""
            IN PToWrite(h, IF hintText # "" THEN hintText
                           ELSE generateHint(Contexts[h.ctx]))
       ELSE IF outcome.ok /\ Get(outcome.body, "snippet", <<>>) # <<>>
              THEN /\ Finish(h)
                   /\ resp' = [type |-> h.kind, ok |-> TRUE, snippet |-> outcome.body.snippet]
                   /\ pageMsg' = None /\ post' = None
              ELSE PRespondExcerpt(h)
  /\ UNCHANGED <<impl, mem, clock, storage, popup, userAllows, delivered, shown, budget>>

NextCountSkipping(current) == current + 2

\* hintCounts[problemId] = current + 1
NextCount(current) == current + 1

\* setHintCounts resolves: the map read at the cap check, with this problem's count
\* raised by one, replaces the stored map; the hint goes to the page and the caller
PWrite(h) ==
  /\ reply' = None
  /\ event' = None
  /\ resets' = 0
  /\ UNCHANGED fetched
  /\ impl = "persisted" /\ h.pc = "write"
  /\ LET key == ProblemKey(Contexts[h.ctx])
     IN /\ storage' = Put(storage, HINTS_MAP,
                          Put(h.counts, key, NextCount(CountOf(h.counts, key))))
        /\ delivered' = [delivered EXCEPT ![key] = @ + 1]
  /\ pageMsg' = [tab |-> h.tab, type |-> "show_hint_in_page", hintText |-> h.hintText]
  /\ resp' = [type |-> h.kind, ok |-> TRUE, hint |-> h.hintText]
  /\ post' = None
  /\ Finish(h)
  /\ UNCHANGED <<impl, mem, clock, popup, userAllows, shown, budget>>

\* onMessage for reset_hints: resetHintCounts is awaited
PResetStart ==
  /\ reply' = None
  /\ event' = None
  /\ UNCHANGED resets
  /\ UNCHANGED fetched
  /\ impl = "persisted"
  /\ Accept
  /\ Spawn([PNew("reset_hints", NoTab) EXCEPT !.pc = "remove"])
  /\ Quiet
  /\ UNCHANGED <<impl, mem, clock, storage, popup, userAllows, delivered, shown>>

\* variant of the reset that removes the settings too
ResetEverything == {HINTS_MAP, HINT_CACHE, SETTINGS}

\* resetHintCounts: the keys removed from storage.local
ResetKeys == {HINTS_MAP, HINT_CACHE}

\* storageRemove resolves
PResetDone(h) ==
  /\ reply' = None
  /\ event' = None
  /\ resets' = Min(resets + 1, 2)
  /\ UNCHANGED fetched
  /\ impl = "persisted" /\ h.pc = "remove"
  /\ storage' = Del(storage, ResetKeys)
  /\ delivered' = ZeroDelivered
  /\ shown' = ZeroShown
  /\ resp' = [type |-> h.kind, ok |-> TRUE]
  /\ pageMsg' = None /\ post' = None
  /\ Finish(h)
  /\ UNCHANGED <<impl, mem, clock, popup, userAllows, budget>>

----------------------------------------------------------------------------
(* src/background.js: the session tracker (tabState) *)

IDLE_MS == 180000

\* failureReason = null
NULL == "<null>"

\* the Date.now() the content script put in payload.time, or 0 when the field is absent
PayloadTimes == {0, clock}

TimeOfPayloadOnly(time) == time

\* (msg.payload && msg.payload.time) || now()
TimeOf(time) == IF time # 0 THEN time ELSE clock

\* tabState[tabId], or {} for a tab without an entry
TabEntry(tabId) == Get(mem.tabState, tabId, EmptyObj)

IsStuck(s) == Get(s, "stuck", FALSE)

\* Math.max(s.lastInputTs || 0, s.lastSubmitTs || 0)
LastActivity(s) ==
  LET lastInput == Get(s, "lastInputTs", 0)
      lastSubmit == Get(s, "lastSubmitTs", 0)
  IN IF lastInput > lastSubmit THEN lastInput ELSE lastSubmit

markTabStuck(s, reason) ==
  Put(Put(s, "stuck", TRUE), "failureReason", IF reason # "" THEN reason ELSE "stuck")

clearTabStuckKeepingReason(s) == Put(s, "stuck", FALSE)

clearTabStuck(s) == Put(Put(s, "stuck", FALSE), "failureReason", NULL)

\* variant of the idle test that fires a second early
IdleASecondEarly(nowTs, s) ==
  ~IsStuck(s) /\ LastActivity(s) > 0 /\ (nowTs - LastActivity(s)) >= IDLE_MS - 1000

\* the test of checkIdleLoop, line 387
IdleNow(nowTs, s) ==
  ~IsStuck(s) /\ LastActivity(s) > 0 /\ (nowTs - LastActivity(s)) >= IDLE_MS

\* a step of the tracker leaves storage, handlers and the history alone and answers
\* nothing
TrackerFrame ==
  /\ impl = "persisted"
  /\ reply' = None /\ resets' = 0 /\ UNCHANGED fetched
  /\ Quiet
  /\ UNCHANGED <<impl, storage, clock, handlers, popup, userAllows, delivered, shown, budget>>

ClearsOnInputAnyReason(s) == IsStuck(s)

\* tabState[tabId].stuck && tabState[tabId].failureReason === 'idle', line 473
ClearsOnInput(s) == IsStuck(s) /\ Get(s, "failureReason", NULL) = "idle"

\* onMessage for editor_input, lines 466-478
EditorInput(senderTab, time) ==
  /\ TrackerFrame
  /\ event' = [type |-> "editor_input", tab |-> senderTab]
  /\ IF senderTab = NoTab
       THEN UNCHANGED mem
       ELSE LET s == Put(TabEntry(senderTab), "lastInputTs", TimeOf(time))
                s2 == IF ClearsOnInput(s) THEN clearTabStuck(s) ELSE s
            IN mem' = [mem EXCEPT !.tabState = Put(@, senderTab, s2)]

\* onMessage for run_or_submit_clicked, lines 481-489
RunOrSubmitClicked(senderTab, time) ==
  /\ TrackerFrame
  /\ event' = [type |-> "run_or_submit_clicked", tab |-> senderTab]
  /\ IF senderTab = NoTab
       THEN UNCHANGED mem
       ELSE mem' = [mem EXCEPT !.tabState =
                      Put(@, senderTab, Put(TabEntry(senderTab), "lastSubmitTs", TimeOf(time)))]

\* onMessage for submission_result, lines 492-510
SubmissionResult(senderTab, status, raw, time) ==
  /\ TrackerFrame
  /\ event' = [type |-> "submission_result", tab |-> senderTab, status |-> status]
  /\ IF senderTab # NoTab /\ status = "fail"
       THEN LET s == Put(Put(TabEntry(senderTab), "stuck", TRUE), "failureReason",
                         IF raw # "" THEN raw ELSE "failure")
            IN mem' = [mem EXCEPT !.tabState =
                         Put(@, senderTab, Put(s, "lastSubmitTs", TimeOf(time)))]
     ELSE IF senderTab # NoTab /\ status = "pass" /\ senderTab \in DOMAIN mem.tabState
       THEN mem' = [mem EXCEPT !.tabState = Put(@, senderTab, clearTabStuck(@[senderTab]))]
     ELSE UNCHANGED mem

\* the setInterval callback checkIdleLoop, lines 378-391
CheckIdleLoop ==
  /\ TrackerFrame
  /\ event' = [type |-> "checkIdleLoop"]
  /\ mem' = [mem EXCEPT !.tabState =
               [t \in DOMAIN @ |-> IF IdleNow(clock, @[t]) THEN markTabStuck(@[t], "idle")
                                   ELSE @[t]]]

TabRemovedKeepingEntry(tabId) ==
  /\ TrackerFrame
  /\ event' = [type |-> "tab_removed", tab |-> tabId, held |-> Has(mem.tabState, tabId)]
  /\ UNCHANGED mem

\* chrome.tabs.onRemoved, lines 690-693
TabRemoved(tabId) ==
  /\ TrackerFrame
  /\ event' = [type |-> "tab_removed", tab |-> tabId, held |-> Has(mem.tabState, tabId)]
  /\ mem' = [mem EXCEPT !.tabState = Del(@, {tabId})]

\* time passes
Elapse(ms) ==
  /\ impl \in {"persisted", "ratelimit"}
  /\ budget.elapses > 0
  /\ budget' = [budget EXCEPT !.elapses = @ - 1]
  /\ clock' = clock + ms
  /\ reply' = None /\ resets' = 0 /\ event' = None /\ UNCHANGED fetched
  /\ Quiet
  /\ UNCHANGED <<impl, storage, mem, handlers, popup, userAllows, delivered, shown>>

----------------------------------------------------------------------------
(* src/extension/background.js: the server-first background *)

SFetchOutcomes == FetchOutcomes \cup {[ok |-> FALSE, why |-> "timeout"]}

localFallbackHint(level) ==
  IF level = 1 THEN "Think about the high-level pattern (array vs. map vs. two-pointers)."
  ELSE IF level = 2
    THEN "Consider an algorithmic pattern (hash map for complements or two pointers after sort)."
  ELSE "Try recording seen values (map) and checking complements in a single pass."

\* the local excerpt of the server-first background, lines 24-28
localFallbackSnippet(snippetRaw) ==
  IF snippetRaw = <<>> THEN <<>>
  ELSE LET split == Split(snippetRaw)
           trimmed == [i \in DOMAIN split |-> Trim(split[i])]
           Truthy(l) == l # ""
           lines == SelectSeq(trimmed, Truthy)
       IN Join(IF Len(lines) <= 3 THEN lines ELSE Take(lines, 3))

\* loadSettings: the stored settings, normalised
SLoadSettings ==
  LET s == StoredSettings
      url == Get(s, "serverUrl", "")
  IN [allowSendCodeToServer |-> Allows(s),
      serverUrl |-> IF url # "" THEN url ELSE DEFAULT_SERVER]

\* hintsGivenMap.get(tabId) || 0
HintsGiven(t) == Get(mem.hintsGivenMap, t, 0)


HintLevelUncapped(prev) == prev + 1

\* the level of the hint a handler asks for: Math.min(prev + 1, 3)
HintLevel(prev) == Min(prev + 1, 3)

\* deliverHint's test for the ask-for-code answer, line 133
AskForCode(newCount) == newCount > 3

\* a new handler; sends and injects are history: the collect_context messages sent and
\* the content-script injections made by the context collection in progress
SNew(kind, pc, tabId) ==
  [kind |-> kind, pc |-> pc, tab |-> tabId, ctx |-> NoCtx, prev |-> 0,
   sends |-> IF pc = "ctx1" THEN 1 ELSE 0, injects |-> 0, sinceOff |-> ~userAllows]

\* onMessage for request_hint, lines 105-118: a tab is looked for in msg.tabId and in
\* the sender, but the target is msg.tabId; chrome.tabs.sendMessage throws on a
\* missing tab id and collectContextWithRetry then resolves with null
SStartHint(msgTab, senderTab) ==
  /\ reply' = None
  /\ event' = [type |-> "request_hint", tabId |-> msgTab, senderTab |-> senderTab]
  /\ resets' = 0
  /\ UNCHANGED fetched
  /\ impl = "serverfirst"
  /\ Accept
  /\ LET tabId == IF msgTab # NoTab THEN msgTab ELSE senderTab
     IN IF tabId = NoTab
          THEN Spawn(SNew("request_hint", "query", NoTab)) /\ resp' = None
          ELSE IF msgTab = NoTab
            THEN /\ resp' = [type |-> "request_hint", ok |-> FALSE, error |-> "no_context"]
                 /\ UNCHANGED handlers
            ELSE Spawn(SNew("request_hint", "ctx1", msgTab)) /\ resp' = None
  /\ pageMsg' = None /\ post' = None
  /\ UNCHANGED <<impl, storage, mem, clock, popup, userAllows, delivered, shown>>

\* onMessage for request_code_snippet, lines 198-205
SStartSnippet(msgTab, senderTab) ==
  /\ reply' = None
  /\ event' = None
  /\ resets' = 0
  /\ UNCHANGED fetched
  /\ impl = "serverfirst"
  /\ Accept
  /\ LET tabId == IF msgTab # NoTab THEN msgTab ELSE senderTab
     IN IF tabId = NoTab
          THEN /\ resp' = [type |-> "request_code_snippet", ok |-> FALSE, error |-> "no_tab"]
               /\ UNCHANGED handlers
          ELSE Spawn(SNew("request_code_snippet", "ctx1", tabId)) /\ resp' = None
  /\ pageMsg' = None /\ post' = None
  /\ UNCHANGED <<impl, storage, mem, clock, popup, userAllows, delivered, shown>>

\* the chrome.tabs.query callback of request_hint, lines 109-116
SQuery(h, active) ==
  /\ reply' = None
  /\ event' = None
  /\ resets' = 0
  /\ UNCHANGED fetched
  /\ impl = "serverfirst" /\ h.pc = "query"
  /\ IF active = NoTab
       THEN /\ Finish(h)
            /\ resp' = [type |-> h.kind, ok |-> FALSE, error |-> "no_tab"]
       ELSE /\ Resume(h, [h EXCEPT !.pc = "ctx1", !.tab = active, !.sends = @ + 1])
            /\ resp' = None
  /\ pageMsg' = None /\ post' = None
  /\ UNCHANGED <<impl, storage, mem, clock, popup, userAllows, delivered, shown, budget>>

\* the context is there: the tab's counter is read and loadSettings is awaited (the
\* history of the finished collection is dropped)
SGotContext(h, c) ==
  /\ Resume(h, [h EXCEPT !.pc = "settings", !.ctx = c, !.prev = HintsGiven(h.tab),
                         !.sends = 0, !.injects = 0])
  /\ Quiet

\* collectContextWithRetry: the first collect_context callback; without an answer the
\* content script is injected
SCollect(h, c) ==
  /\ reply' = None
  /\ event' = None
  /\ resets' = 0
  /\ UNCHANGED fetched
  /\ impl = "serverfirst" /\ h.pc = "ctx1"
  /\ IF c # NoCtx
       THEN SGotContext(h, c)
       ELSE Resume(h, [h EXCEPT !.pc = "inject", !.injects = @ + 1]) /\ Quiet
  /\ UNCHANGED <<impl, storage, mem, clock, popup, userAllows, delivered, shown, budget>>

\* the executeScript callback starts the timer
SInjected(h) ==
  /\ reply' = None
  /\ event' = None
  /\ resets' = 0
  /\ UNCHANGED fetched
  /\ impl = "serverfirst" /\ h.pc = "inject"
  /\ Resume(h, [h EXCEPT !.pc = "timer"]) /\ Quiet
  /\ UNCHANGED <<impl, storage, mem, clock, popup, userAllows, delivered, shown, budget>>

\* the timer fires and collect_context is sent again
STimer(h) ==
  /\ reply' = None
  /\ event' = None
  /\ resets' = 0
  /\ UNCHANGED fetched
  /\ impl = "serverfirst" /\ h.pc = "timer"
  /\ Resume(h, [h EXCEPT !.pc = "ctx2", !.sends = @ + 1]) /\ Quiet
  /\ UNCHANGED <<impl, storage, mem, clock, popup, userAllows, delivered, shown, budget>>

\* the second collect_context callback: an answer, or no_context
SRetry(h, c) ==
  /\ reply' = None
  /\ event' = None
  /\ resets' = 0
  /\ UNCHANGED fetched
  /\ impl = "serverfirst" /\ h.pc = "ctx2"
  /\ IF c # NoCtx
       THEN SGotContext(h, c)
       ELSE /\ Finish(h)
            /\ resp' = [type |-> h.kind, ok |-> FALSE, error |-> "no_context"]
            /\ pageMsg' = None /\ post' = None
  /\ UNCHANGED <<impl, storage, mem, clock, popup, userAllows, delivered, shown, budget>>

\* deliverHint, lines 132-163: the hint goes to the page, the tab's counter becomes
\* prev + 1, and the answer to the caller is built
deliverHint(h, rawHintText) ==
  LET newCount == h.prev + 1
      askForCode == AskForCode(newCount)
  IN /\ pageMsg' = [tab |-> h.tab, type |-> "show_hint_in_page",
                    hintText |-> IF askForCode THEN "Reached Maximum hint limit."
                                 ELSE rawHintText,
                    level |-> HintLevel(h.prev), askForCode |-> askForCode]
     /\ mem' = [mem EXCEPT !.hintsGivenMap = Put(@, h.tab, newCount)]
     /\ resp' = IF askForCode
                  THEN [type |-> h.kind, ok |-> TRUE, hint |-> "", action |-> "ask_for_code"]
                  ELSE [type |-> h.kind, ok |-> TRUE, hint |-> rawHintText]
     /\ post' = None
     /\ Finish(h)

\* history of deliverHint: a show_hint_in_page that carries a hint, not the limit
\* notice, counts for its tab
SHistory(h) ==
  IF Get(pageMsg', "type", "") = "show_hint_in_page" /\ ~pageMsg'.askForCode
    THEN shown' = [shown EXCEPT ![h.tab] = @ + 1]
    ELSE UNCHANGED shown

\* the count a request_hint for problem q in tab t starts from, line 125:
\* hintsGivenMap.get(targetTabId) || 0, whatever the problem
SCountFor(q, t) == HintsGiven(t)

\* the POST body of request_hint (lines 167-173) and of request_code_snippet (line 217)
SPayload(h, settings) ==
  LET c == Contexts[h.ctx]
      base == [problemId |-> c.problemId, snippet |-> c.snippet, url |-> c.url,
               failure |-> c.failure, hintLevel |-> HintLevel(h.prev)]
  IN [url |-> settings.serverUrl,
      body |-> IF h.kind = "request_hint" THEN base ELSE Put(base, "request", "snippet")]

\* the local answer of a handler: the fallback hint is delivered, or the local snippet
\* is returned
SLocal(h) ==
  IF h.kind = "request_hint"
    THEN deliverHint(h, localFallbackHint(HintLevel(h.prev)))
    ELSE /\ Finish(h)
         /\ resp' = [type |-> h.kind, ok |-> TRUE,
                     snippet |-> localFallbackSnippet(Contexts[h.ctx].snippet)]
         /\ pageMsg' = None /\ post' = None
         /\ UNCHANGED mem

\* loadSettings resolves: with consent the POST is issued, without it the handler
\* answers locally
SSettings(h) ==
  /\ reply' = None
  /\ event' = None
  /\ resets' = 0
  /\ UNCHANGED fetched
  /\ impl = "serverfirst" /\ h.pc = "settings"
  /\ LET settings == SLoadSettings
     IN IF settings.allowSendCodeToServer
          THEN /\ Resume(h, [h EXCEPT !.pc = "fetch"])
               /\ post' = SPayload(h, settings)
               /\ resp' = None /\ pageMsg' = None
               /\ UNCHANGED mem
          ELSE SLocal(h)
  /\ SHistory(h)
  /\ UNCHANGED <<impl, storage, clock, popup, userAllows, delivered, budget>>

\* postToServer ends: a JSON body is used as it is, a failure falls back to the local
\* answer (lines 175-191, 218-229)
SFetch(h, outcome) ==
  /\ reply' = outcome
  /\ event' = None
  /\ resets' = 0
  /\ UNCHANGED fetched
  /\ impl = "serverfirst" /\ h.pc = "fetch"
  /\ IF ~outcome.ok
       THEN SLocal(h)
       ELSE IF h.kind = "request_hint"
         THEN LET hint == Get(outcome.body, "hint", "")
                  snippet == Get(outcome.body, "snippet", <<>>)
              IN deliverHint(h, IF hint # "" THEN hint
                                ELSE IF snippet # <<>> THEN snippet ELSE "")
         ELSE IF outcome.body = JsonNull
           THEN SLocal(h)
           ELSE /\ Finish(h)
                /\ resp' = [type |-> h.kind, ok |-> TRUE,
                            snippet |-> Get(outcome.body, "snippet", <<>>)]
                /\ pageMsg' = None /\ post' = None
                /\ UNCHANGED mem
  /\ SHistory(h)
  /\ UNCHANGED <<impl, storage, clock, popup, userAllows, delivered, budget>>

\* onMessage for reset_hints, lines 252-266: the storage keys are removed and the
\* counters cleared in the handler's one turn
SReset ==
  /\ reply' = None
  /\ event' = None
  /\ resets' = Min(resets + 1, 2)
  /\ UNCHANGED fetched
  /\ impl = "serverfirst"
  /\ Accept
  /\ storage' = Del(storage, ResetKeys)
  /\ mem' = [mem EXCEPT !.hintsGivenMap = EmptyObj]
  /\ resp' = [type |-> "reset_hints", ok |-> TRUE]
  /\ pageMsg' = None /\ post' = None
  /\ delivered' = ZeroDelivered
  /\ shown' = ZeroShown
  /\ UNCHANGED <<impl, clock, handlers, popup, userAllows>>

----------------------------------------------------------------------------
(* src/unnamed/part_001: the cache and rate-limit background *)

HINT_LIMIT == 3
HINT_CACHE_TTL_MS == 300000
MIN_TIME_BETWEEN_SERVER_CALLS_MS == 30000
HINT_SERVER_URL == "http://localhost:3000/api/generate-hint"

THROTTLED_HINT == "Hint: consider edge cases and algorithmic complexity (throttled)."

\* a line of the text matches the (case-insensitive) pattern
TextIncludes(text, needle) == \E i \in DOMAIN text : Includes(Lower(text[i]), needle)

generateTemplateHint(snippet, failureInfo) ==
  IF failureInfo # "" /\ Includes(Lower(failureInfo), "time limit")
    THEN "Hint: your approach may be too slow - consider improving time complexity."
  ELSE IF failureInfo # "" /\ Includes(Lower(failureInfo), "runtime error")
    THEN "Hint: check index/access and null values; validate assumptions."
  ELSE IF snippet # <<>> /\ (TextIncludes(snippet, "recurs") \/ TextIncludes(snippet, "dfs")
                              \/ TextIncludes(snippet, "bfs"))
    THEN "Hint: verify base case and recursion limits."
  ELSE "Hint: test small and edge-case inputs; verify indices and boundaries."

\* snippet.slice(0, 2000): the texts of the model are shorter than 2000 characters
Slice2000(text) == text

\* getHint, line 235: the code is put in the payload only with consent
RPayloadSnippet(settings, snippet) ==
  IF Allows(settings) THEN Slice2000(snippet) ELSE <<>>

\* handleRequestCodeSnippet, lines 207-209
RLocalExcerpt(full) ==
  LET split == Split(full)
      NotBlank(l) == Trim(l) # ""
      lines == SelectSeq(split, NotBlank)
      excerpt == Join(Take(lines, 3))
  IN IF excerpt # <<>> THEN excerpt ELSE <<"// Unable to extract small code snippet.">>

RNew(kind, tabId) ==
  [kind |-> kind, pc |-> "collect", tab |-> tabId, ctx |-> NoCtx, sinceOff |-> ~userAllows]

\* onMessage for request_hint / request_code_snippet: the tab is msg.tabId
RStart(kind, msgTab) ==
  /\ reply' = None
  /\ event' = None
  /\ resets' = 0
  /\ UNCHANGED fetched
  /\ impl = "ratelimit"
  /\ Accept
  /\ IF msgTab = NoTab
       THEN /\ resp' = [type |-> kind, ok |-> FALSE, error |-> "no_tab"]
            /\ UNCHANGED handlers
       ELSE Spawn(RNew(kind, msgTab)) /\ resp' = None
  /\ pageMsg' = None /\ post' = None
  /\ UNCHANGED <<impl, storage, mem, clock, popup, userAllows, delivered, shown>>

\* the hint goes to the page and to the caller (lines 185-186)
RShowHint(h, hintText) ==
  /\ pageMsg' = [tab |-> h.tab, type |-> "show_hint_in_page", hintText |-> hintText]
  /\ resp' = [type |-> h.kind, ok |-> TRUE, action |-> "show_hint", hint |-> hintText]
  /\ Finish(h)

\* the abort timer of the fetch
FETCH_TIMEOUT_MS == 10000

FreshBeforeTtl(cached, now) == cached # None /\ now - cached.ts < HINT_CACHE_TTL_MS

\* the cache check of getHint: there is an entry and it is not older than the TTL
Fresh(cached, now) == cached # None /\ now - cached.ts <= HINT_CACHE_TTL_MS

RateLimitedWhilePending(lastCall, now) == now - lastCall < FETCH_TIMEOUT_MS

\* the rate limit of getHint: the last call for the problem is too recent
RateLimited(lastCall, now) == now - lastCall < MIN_TIME_BETWEEN_SERVER_CALLS_MS

\* the collect_context callback of handleRequestHint, lines 162-184, with getHint up
\* to its fetch (lines 216-248): cap check, increment, cache, rate limit, POST
RCollectHint(h, c) ==
  /\ reply' = None
  /\ event' = None
  /\ resets' = 0
  /\ impl = "ratelimit" /\ h.kind = "request_hint" /\ h.pc = "collect"
  /\ IF c = NoCtx
       THEN /\ Finish(h)
            /\ resp' = [type |-> h.kind, ok |-> FALSE, error |-> "no_context"]
            /\ pageMsg' = None /\ post' = None
            /\ UNCHANGED <<mem, storage>>
       ELSE LET problemId == ProblemKey(Contexts[c])
                currentCount == CountOf(mem.persistedHints, problemId)
                hints == Put(mem.persistedHints, problemId, currentCount + 1)
                cached == Get(mem.hintCache, problemId, None)
                lastCall == Get(mem.recentServerCalls, problemId, 0)
            IN IF currentCount >= HINT_LIMIT
                 THEN /\ Finish(h)
                      /\ resp' = [type |-> h.kind, ok |-> TRUE, action |-> "ask_for_code"]
                      /\ pageMsg' = None /\ post' = None
                      /\ UNCHANGED <<mem, storage>>
                 ELSE /\ storage' = Put(storage, HINTS_MAP, hints)
                      /\ IF Fresh(cached, clock)
                           THEN /\ RShowHint(h, cached.hint)
                                /\ post' = None
                                /\ mem' = [mem EXCEPT !.persistedHints = hints]
                         ELSE IF RateLimited(lastCall, clock)
                           THEN /\ RShowHint(h, IF cached # None THEN cached.hint
                                                ELSE THROTTLED_HINT)
                                /\ post' = None
                                /\ mem' = [mem EXCEPT !.persistedHints = hints]
                         ELSE /\ mem' = [mem EXCEPT !.persistedHints = hints,
                                           !.recentServerCalls = Put(@, problemId, clock)]
                              /\ post' = [url |-> HINT_SERVER_URL,
                                          body |-> [problemId |-> problemId,
                                                    snippet |-> RPayloadSnippet(mem.settings,
                                                                  Contexts[c].snippet),
                                                    failureInfo |-> Contexts[c].failure]]
                              /\ Resume(h, [h EXCEPT !.pc = "fetch", !.ctx = c])
                              /\ resp' = None /\ pageMsg' = None
  /\ fetched' = IF post' # None THEN [fetched EXCEPT ![post'.body.problemId] = clock]
                 ELSE fetched
  /\ UNCHANGED <<impl, clock, popup, userAllows, delivered, shown, budget>>

\* the fetch of getHint ends (lines 249-263): a hint of the body is cached and
\* returned, anything else gives the template hint
RFetch(h, outcome) ==
  /\ reply' = outcome
  /\ event' = None
  /\ resets' = 0
  /\ UNCHANGED fetched
  /\ impl = "ratelimit" /\ h.pc = "fetch"
  /\ LET c == Contexts[h.ctx]
         hint == IF outcome.ok THEN Get(outcome.body, "hint", "") ELSE ""
     IN IF hint # ""
          THEN LET cache == Put(mem.hintCache, ProblemKey(c), [hint |-> hint, ts |-> clock])
               IN /\ mem' = [mem EXCEPT !.hintCache = cache]
                  /\ storage' = Put(storage, HINT_CACHE, cache)
                  /\ RShowHint(h, hint)
          ELSE /\ RShowHint(h, generateTemplateHint(c.snippet, c.failure))
               /\ UNCHANGED <<mem, storage>>
  /\ post' = None
  /\ UNCHANGED <<impl, clock, popup, userAllows, delivered, shown, budget>>

\* the collect_context callback of handleRequestCodeSnippet, lines 202-212
RCollectSnippet(h, c) ==
  /\ reply' = None
  /\ event' = None
  /\ resets' = 0
  /\ UNCHANGED fetched
  /\ impl = "ratelimit" /\ h.kind = "request_code_snippet" /\ h.pc = "collect"
  /\ IF c = NoCtx
       THEN /\ resp' = [type |-> h.kind, ok |-> FALSE, error |-> "no_context"]
            /\ pageMsg' = None
       ELSE LET excerpt == RLocalExcerpt(Contexts[c].snippet)
            IN /\ pageMsg' = [tab |-> h.tab, type |-> "show_hint_in_page",
                              hintText |-> excerpt]
               /\ resp' = [type |-> h.kind, ok |-> TRUE, codeSnippet |-> excerpt]
  /\ post' = None
  /\ Finish(h)
  /\ UNCHANGED <<impl, storage, mem, clock, popup, userAllows, delivered, shown, budget>>

\* onMessage for update_settings, lines 136-142: the new fields are merged into the
\* settings in memory, which are persisted
RUpdateSettings(checked) ==
  /\ reply' = None
  /\ event' = None
  /\ resets' = 0
  /\ UNCHANGED fetched
  /\ impl = "ratelimit"
  /\ UserActs
  /\ LET settings == Put(mem.settings, "allowSendCodeToServer", checked)
     IN /\ mem' = [mem EXCEPT !.settings = settings]
        /\ storage' = Put(storage, SETTINGS, settings)
        /\ resp' = [type |-> "update_settings", ok |-> TRUE, settings |-> settings]
  /\ UserSets(checked)
  /\ pageMsg' = None /\ post' = None
  /\ UNCHANGED <<impl, clock, popup, delivered, shown>>

\* onMessage for debug_clear_state, lines 144-150
RClearState ==
  /\ reply' = None
  /\ event' = None
  /\ resets' = 0
  /\ UNCHANGED fetched
  /\ impl = "ratelimit"
  /\ Accept
  /\ mem' = [mem EXCEPT !.persistedHints = EmptyObj, !.hintCache = EmptyObj]
  /\ storage' = Del(storage, ResetKeys)
  /\ resp' = [type |-> "debug_clear_state", ok |-> TRUE]
  /\ pageMsg' = None /\ post' = None
  /\ delivered' = ZeroDelivered
  /\ shown' = ZeroShown
  /\ UNCHANGED <<impl, clock, handlers, popup, userAllows>>

\* loadPersistedState, lines 51-65: the get issued when the worker started is
\* answered and its callback rehydrates the memory
RLoad ==
  /\ reply' = None
  /\ event' = None
  /\ resets' = 0
  /\ UNCHANGED fetched
  /\ impl = "ratelimit"
  /\ mem.load = "issued"
  /\ mem' = [mem EXCEPT !.persistedHints = Get(storage, HINTS_MAP, EmptyObj),
                        !.hintCache = Get(storage, HINT_CACHE, EmptyObj),
                        !.settings = Get(storage, SETTINGS, [allowSendCodeToServer |-> FALSE]),
                        !.load = "done"]
  /\ Quiet
  /\ UNCHANGED <<impl, storage, clock, handlers, popup, userAllows, delivered, shown, budget>>

\* time passes
Tick(ms) ==
  /\ reply' = None
  /\ event' = None
  /\ resets' = 0
  /\ UNCHANGED fetched
  /\ impl = "ratelimit"
  /\ clock + ms <= START_MS + MaxTicks * TICK_MS
  /\ clock' = clock + ms
  /\ Quiet
  /\ UNCHANGED <<impl, storage, mem, handlers, popup, userAllows, delivered, shown, budget>>

----------------------------------------------------------------------------
(* src/unnamed/part_001: its session tracker *)

FAILURE_WINDOW_MS == 600000

\* ensureTab, lines 33-38: the entry of the tab, a fresh one if there is none
ensureTab(tabId) == Get(mem.tabState, tabId, [lastInputTs |-> 0, failures |-> <<>>,
                                              isStuck |-> FALSE])

\* a step of this tracker changes its entries only
RTrackerFrame ==
  /\ impl = "ratelimit"
  /\ reply' = None /\ resets' = 0 /\ UNCHANGED fetched
  /\ Quiet
  /\ UNCHANGED <<impl, storage, clock, handlers, popup, userAllows, delivered, shown, budget>>

\* onMessage for editor_input and run_or_submit_clicked, lines 95-106
RActivity(type, senderTab, time) ==
  /\ RTrackerFrame
  /\ event' = [type |-> type, tab |-> senderTab]
  /\ IF senderTab = NoTab
       THEN UNCHANGED mem
       ELSE mem' = [mem EXCEPT !.tabState =
                      Put(@, senderTab, Put(ensureTab(senderTab), "lastInputTs", TimeOf(time)))]

RecentFailuresBefore(failures, now) ==
  LET InWindow(t) == now - t <= FAILURE_WINDOW_MS
  IN SelectSeq(failures, InWindow)

\* s.failures.push(now) and the filter of line 112
RecentFailures(failures, now) ==
  LET InWindow(t) == now - t <= FAILURE_WINDOW_MS
  IN SelectSeq(Append(failures, now), InWindow)

\* onMessage for submission_result, lines 107-123
RSubmissionResult(senderTab, status) ==
  /\ RTrackerFrame
  /\ event' = [type |-> "submission_result", tab |-> senderTab, status |-> status]
  /\ IF senderTab = NoTab THEN UNCHANGED mem
     ELSE LET s == ensureTab(senderTab)
              failures == RecentFailures(s.failures, clock)
              s2 == IF status = "fail"
                      THEN [s EXCEPT !.failures = failures,
                                     !.isStuck = IF Len(failures) >= 1 THEN TRUE ELSE @]
                    ELSE IF status = "pass"
                      THEN [s EXCEPT !.failures = <<>>, !.isStuck = FALSE]
                    ELSE s
          IN /\ status = "fail" => Len(s.failures) < MaxFailures
             /\ mem' = [mem EXCEPT !.tabState = Put(@, senderTab, s2)]

RIdleWithoutActivity(s, now) == now - s.lastInputTs >= IDLE_MS /\ ~s.isStuck

\* the condition of line 81
RIdleNow(s, now) == s.lastInputTs # 0 /\ now - s.lastInputTs >= IDLE_MS /\ ~s.isStuck

\* the idle_check alarm: performIdleCheck with the tabs that chrome.tabs.query finds,
\* lines 74-87
RPerformIdleCheck(open) ==
  /\ RTrackerFrame
  /\ event' = [type |-> "performIdleCheck"]
  /\ mem' = [mem EXCEPT !.tabState =
               [t \in DOMAIN @ \cup open |->
                  IF t \notin open THEN @[t]
                  ELSE LET s == ensureTab(t)
                       IN IF RIdleNow(s, clock)
                            THEN [s EXCEPT !.isStuck = TRUE] ELSE s]]

----------------------------------------------------------------------------
(* The service worker is stopped (when idle, or with the browser or the extension)
   and started again by the next event *)

\* onSuspend (part_001, lines 280-284), when the browser fires it: the memory is persisted
OnSuspend(fired) ==
  IF impl = "ratelimit" /\ fired
    THEN storage' = Put(Put(Put(storage, HINTS_MAP, mem.persistedHints),
                            HINT_CACHE, mem.hintCache), SETTINGS, mem.settings)
    ELSE UNCHANGED storage

Restart(fired) ==
  /\ reply' = None
  /\ event' = None
  /\ resets' = 0
  /\ UNCHANGED fetched
  /\ impl \in {"serverfirst", "ratelimit"}
  /\ handlers = EmptyBag
  /\ budget.restarts > 0
  /\ budget' = [budget EXCEPT !.restarts = @ - 1]
  /\ OnSuspend(fired)
  /\ mem' = InitMem(impl)
  /\ Quiet
  /\ UNCHANGED <<impl, clock, handlers, popup, userAllows, delivered, shown>>

----------------------------------------------------------------------------
(* The popup and the options page write the settings to storage.local *)

PopupIdle == [pc |-> "idle"]

\* saveAllowSendToggle: the get callback builds the new settings and issues the set
ToggleGet(checked) ==
  /\ reply' = None
  /\ event' = None
  /\ resets' = 0
  /\ UNCHANGED fetched
  /\ popup = PopupIdle
  /\ UserActs
  /\ LET s == StoredSettings
         s1 == Put(s, "allowSendCodeToServer", checked)
         url == Get(s, "serverUrl", "")
     IN popup' = [pc |-> "set", checked |-> checked,
                  s |-> Put(s1, "serverUrl", IF url # "" THEN url ELSE DEFAULT_SERVER)]
  /\ Quiet
  /\ UNCHANGED <<impl, mem, clock, storage, handlers, userAllows, delivered, shown>>

\* saveAllowSendToggle: the set takes effect
ToggleSet ==
  /\ reply' = None
  /\ event' = None
  /\ resets' = 0
  /\ UNCHANGED fetched
  /\ popup.pc = "set"
  /\ storage' = Put(storage, SETTINGS, popup.s)
  /\ UserSets(popup.checked)
  /\ popup' = PopupIdle
  /\ Quiet
  /\ UNCHANGED <<impl, mem, clock, delivered, shown, budget>>

\* options page, saveSettings: one chrome.storage.local.set of both fields
OptionsSave(checked, url) ==
  /\ reply' = None
  /\ event' = None
  /\ resets' = 0
  /\ UNCHANGED fetched
  /\ impl \in {"persisted", "serverfirst"}
  /\ UserActs
  /\ storage' = Put(storage, SETTINGS,
                    [allowSendCodeToServer |-> checked, serverUrl |-> url])
  /\ UserSets(checked)
  /\ Quiet
  /\ UNCHANGED <<impl, mem, clock, popup, delivered, shown>>

----------------------------------------------------------------------------
(* The specification *)

\* the extension as installed, running one of the background scripts
InitOf(impls) ==
  /\ impl \in impls
  /\ storage = EmptyObj
  /\ mem = InitMem(impl)
  /\ clock = START_MS
  /\ handlers = EmptyBag
  /\ popup = PopupIdle
  /\ resp = None /\ pageMsg = None /\ post = None /\ reply = None /\ event = None
  /\ userAllows = FALSE
  /\ delivered = ZeroDelivered
  /\ shown = ZeroShown
  /\ resets = 0
  /\ fetched = [k \in Keys |-> 0]
  /\ budget = [requests |-> MaxRequests, user |-> MaxUserActions, restarts |-> MaxRestarts,
               elapses |-> MaxElapses]

Init == InitOf({"persisted", "serverfirst"})

\* every message and user action with every input; the worker handles one message
\* at a time. A request_hint of the server-first popup names its tab in msg.tabId and
\* has no sender tab; one sent from a page has a sender tab and no msg.tabId
Next ==
  \/ \E kind \in {"request_hint", "request_code_snippet"}, m, s \in Tabs \cup {NoTab} :
       handlers = EmptyBag /\ PStart(kind, m, s)
  \/ \E h \in Inflight, active \in Tabs \cup {NoTab} : PQuery(h, active)
  \/ \E h \in Inflight, c \in CtxIds \cup {NoCtx} : PCollect(h, c)
  \/ \E h \in Inflight : PCounts(h)
  \/ \E h \in Inflight : PEsGet(h)
  \/ \E h \in Inflight : PEsSet(h)
  \/ \E h \in Inflight : PScsSet(h)
  \/ \E h \in Inflight, o \in FetchOutcomes : PFetch(h, o)
  \/ \E h \in Inflight : PWrite(h)
  \/ handlers = EmptyBag /\ PResetStart
  \/ \E h \in Inflight : PResetDone(h)
  \/ \E m, s \in Tabs \cup {NoTab} :
       (m = NoTab \/ s = NoTab) /\ handlers = EmptyBag /\ SStartHint(m, s)
  \/ \E m, s \in Tabs \cup {NoTab} : handlers = EmptyBag /\ SStartSnippet(m, s)
  \/ \E h \in Inflight, active \in Tabs \cup {NoTab} : SQuery(h, active)
  \/ \E h \in Inflight, c \in CtxIds \cup {NoCtx} : SCollect(h, c)
  \/ \E h \in Inflight : SInjected(h)
  \/ \E h \in Inflight : STimer(h)
  \/ \E h \in Inflight, c \in CtxIds \cup {NoCtx} : SRetry(h, c)
  \/ \E h \in Inflight : SSettings(h)
  \/ \E h \in Inflight, o \in SFetchOutcomes : SFetch(h, o)
  \/ handlers = EmptyBag /\ SReset
  \/ \E fired \in BOOLEAN : Restart(fired)
  \/ \E b \in BOOLEAN : ToggleGet(b)
  \/ ToggleSet
  \/ \E b \in BOOLEAN, u \in ServerUrls : OptionsSave(b, u)

Spec == Init /\ [][Next]_vars

\* the popup's messages (msg.tabId given) handled concurrently: handlers interleave at
\* their awaits
NextRace ==
  \/ \E kind \in {"request_hint", "request_code_snippet"}, m \in {1} : PStart(kind, m, NoTab)
  \/ \E h \in Inflight, c \in {1, 2, NoCtx} : PCollect(h, c)
  \/ \E h \in Inflight : PCounts(h)
  \/ \E h \in Inflight : PEsGet(h)
  \/ \E h \in Inflight : PEsSet(h)
  \/ \E h \in Inflight : PScsSet(h)
  \/ \E h \in Inflight, o \in FetchOutcomes : PFetch(h, o)
  \/ \E h \in Inflight : PWrite(h)
  \/ PResetStart
  \/ \E h \in Inflight : PResetDone(h)
  \/ \E b \in BOOLEAN : ToggleGet(b)
  \/ ToggleSet

InitRace == InitOf({"persisted"})

SpecRace == InitRace /\ [][NextRace]_vars

\* the cache and rate-limit background, one message at a time
NextCache ==
  \/ \E kind \in {"request_hint", "request_code_snippet"}, m \in {1, NoTab} :
       handlers = EmptyBag /\ RStart(kind, m)
  \/ \E h \in Inflight, c \in CtxIds \cup {NoCtx} : RCollectHint(h, c)
  \/ \E h \in Inflight, o \in SFetchOutcomes : RFetch(h, o)
  \/ \E h \in Inflight, c \in CtxIds \cup {NoCtx} : RCollectSnippet(h, c)
  \/ \E b \in BOOLEAN : RUpdateSettings(b)
  \/ handlers = EmptyBag /\ RClearState
  \/ RLoad
  \/ Tick(TICK_MS)
  \/ \E fired \in BOOLEAN : Restart(fired)
  \/ \E b \in BOOLEAN : ToggleGet(b)
  \/ ToggleSet

InitCache == InitOf({"ratelimit"})

SpecCache == InitCache /\ [][NextCache]_vars

\* requests for hints and for code excerpts in the three backgrounds, handled one at
\* a time, with the consent set by the user in between
NextSnippet ==
  \/ \E kind \in {"request_hint", "request_code_snippet"}, m \in {1, NoTab} :
       handlers = EmptyBag /\ PStart(kind, m, NoTab)
  \/ \E h \in Inflight, active \in {1, NoTab} : PQuery(h, active)
  \/ \E h \in Inflight, c \in CtxIds \cup {NoCtx} : PCollect(h, c)
  \/ \E h \in Inflight : PCounts(h)
  \/ \E h \in Inflight : PEsGet(h)
  \/ \E h \in Inflight : PEsSet(h)
  \/ \E h \in Inflight : PScsSet(h)
  \/ \E h \in Inflight, o \in FetchOutcomes : PFetch(h, o)
  \/ \E h \in Inflight : PWrite(h)
  \/ \E m \in {1, NoTab} : handlers = EmptyBag /\ SStartHint(m, NoTab)
  \/ \E m \in {1, NoTab} : handlers = EmptyBag /\ SStartSnippet(m, NoTab)
  \/ \E h \in Inflight, active \in {1, NoTab} : SQuery(h, active)
  \/ \E h \in Inflight, c \in CtxIds \cup {NoCtx} : SCollect(h, c)
  \/ \E h \in Inflight : SInjected(h)
  \/ \E h \in Inflight : STimer(h)
  \/ \E h \in Inflight, c \in CtxIds \cup {NoCtx} : SRetry(h, c)
  \/ \E h \in Inflight : SSettings(h)
  \/ \E h \in Inflight, o \in SFetchOutcomes : SFetch(h, o)
  \/ \E kind \in {"request_hint", "request_code_snippet"}, m \in {1, NoTab} :
       handlers = EmptyBag /\ RStart(kind, m)
  \/ \E h \in Inflight, c \in CtxIds \cup {NoCtx} : RCollectHint(h, c)
  \/ \E h \in Inflight, o \in SFetchOutcomes : RFetch(h, o)
  \/ \E h \in Inflight, c \in CtxIds \cup {NoCtx} : RCollectSnippet(h, c)
  \/ \E b \in BOOLEAN : RUpdateSettings(b)
  \/ RLoad
  \/ \E b \in BOOLEAN, u \in ServerUrls : OptionsSave(b, u)

SpecSnippet == InitOf({"persisted", "serverfirst", "ratelimit"}) /\ [][NextSnippet]_vars

\* the fetch of getHint brings a hint, or is aborted by its timer
LimitOutcomes == {[ok |-> TRUE, body |-> [hint |-> SERVER_HINT]], [ok |-> FALSE, why |-> "timeout"]}

\* hint requests of the rate-limited background handled concurrently, while time
\* passes and the worker is restarted
NextLimit ==
  \/ RStart("request_hint", 1)
  \/ \E h \in Inflight, c \in {1, 2} : RCollectHint(h, c)
  \/ \E h \in Inflight, o \in LimitOutcomes : RFetch(h, o)
  \/ RLoad
  \/ \E ms \in {FETCH_TIMEOUT_MS, TICK_MS} : Tick(ms)
  \/ Restart(FALSE)

SpecLimit == InitCache /\ [][NextLimit]_vars

\* hint requests of the rate-limited background, one at a time, over the minutes in
\* which the entries of the cache grow old
NextStale ==
  \/ handlers = EmptyBag /\ RStart("request_hint", 1)
  \/ \E h \in Inflight, c \in {1, 2} : RCollectHint(h, c)
  \/ \E h \in Inflight, o \in LimitOutcomes : RFetch(h, o)
  \/ \E ms \in {FETCH_TIMEOUT_MS, HINT_CACHE_TTL_MS} : Elapse(ms)

SpecStale == InitCache /\ [][NextStale]_vars

\* the steps of the clock in a run of the session tracker: a second, and a second
\* less than the idle limit
Elapses == {1000, IDLE_MS - 1000}

\* the session tracker of the persisted-count background: activity messages of the
\* content scripts, the idle timer, closing tabs
NextTracker ==
  \/ \E t \in Tabs \cup {NoTab}, time \in PayloadTimes : EditorInput(t, time)
  \/ \E t \in {1, NoTab}, time \in PayloadTimes : RunOrSubmitClicked(t, time)
  \/ \E t \in {1, NoTab}, status \in {"fail", "pass", "other"}, raw \in {"", "Wrong Answer"},
        time \in PayloadTimes : SubmissionResult(t, status, raw, time)
  \/ CheckIdleLoop
  \/ \E t \in Tabs : TabRemoved(t)
  \/ \E ms \in Elapses : Elapse(ms)

\* requests for a code excerpt with consent off, over the snippets of SnippetContexts
NextExcerpt ==
  \/ handlers = EmptyBag /\ PStart("request_code_snippet", 1, NoTab)
  \/ \E h \in Inflight, c \in SnippetCtxIds : PCollect(h, c)
  \/ \E h \in Inflight : PEsGet(h)
  \/ \E h \in Inflight : PEsSet(h)
  \/ handlers = EmptyBag /\ SStartSnippet(1, NoTab)
  \/ \E h \in Inflight, c \in SnippetCtxIds : SCollect(h, c)
  \/ \E h \in Inflight : SSettings(h)

SpecExcerpt == Init /\ [][NextExcerpt]_vars

InitTracker == InitOf({"persisted"})

\* the session trackers of the persisted-count and of the rate-limited background
NextTrackers ==
  \/ NextTracker
  \/ \E type \in {"editor_input", "run_or_submit_clicked"}, t \in {1, NoTab},
        time \in PayloadTimes : RActivity(type, t, time)
  \/ \E t \in {1, NoTab}, status \in {"fail", "pass", "other"} : RSubmissionResult(t, status)
  \/ \E open \in SUBSET Tabs : RPerformIdleCheck(open)

SpecTrackers == InitOf({"persisted", "ratelimit"}) /\ [][NextTrackers]_vars

SpecTracker == InitTracker /\ [][NextTracker]_vars

\* the callbacks of chrome.tabs and chrome.storage, which the browser always delivers
BrowserSteps ==
  \/ \E h \in Inflight, c \in CtxIds \cup {NoCtx} : PCollect(h, c)
  \/ \E h \in Inflight : PCounts(h)
  \/ \E h \in Inflight : PEsGet(h)
  \/ \E h \in Inflight : PEsSet(h)
  \/ \E h \in Inflight : PScsSet(h)
  \/ \E h \in Inflight : PWrite(h)

\* request_hint messages of the popup for tab 1, one at a time, and the consent toggle;
\* the fetch of sendCodeToServer (lines 438-442, no timeout, no abort signal) settles
\* when the backend answers or the connection fails
NextLive ==
  \/ handlers = EmptyBag /\ PStart("request_hint", 1, NoTab)
  \/ BrowserSteps
  \/ \E h \in Inflight, o \in FetchOutcomes : PFetch(h, o)
  \/ \E b \in BOOLEAN : ToggleGet(b)
  \/ ToggleSet

\* the browser's callbacks are delivered; nothing makes the backend answer
SpecLive == InitRace /\ [][NextLive]_vars /\ WF_vars(BrowserSteps)

----------------------------------------------------------------------------
(* Properties *)

RespType == Get(resp, "type", "")
HintResponse == RespType = "request_hint" /\ Get(resp, "ok", FALSE)

\* the step completes a reset_hints
ResetCompletes == RespType' = "reset_hints"

\* C1: in the persisted-count background, with messages handled one at a time, the
\* count stored for a problem in leetmentor_hints_map is always in 0..3 and, unless a
\* reset completes, never decreases.
C1_StoredCountBounded ==
  /\ [](impl = "persisted" =>
          \A k \in Keys : CountOf(StoredHints, k) \in 0..MAX_HINTS_PER_PROBLEM)
  /\ [][(impl = "persisted" /\ ~ResetCompletes) =>
          \A k \in Keys : CountOf(StoredHints, k)' >= CountOf(StoredHints, k)]_vars

\* the third hint of a problem has just been stored and delivered
C1_Witness ==
  /\ impl = "persisted"
  /\ HintResponse /\ Get(resp, "hint", "") # ""
  /\ CountOf(StoredHints, "two-sum") = MAX_HINTS_PER_PROBLEM

\* a request_hint handler of the persisted-count background about to take its cap
\* check on a stored count of 3
AtCapCheck(h) ==
  /\ impl = "persisted" /\ h.kind = "request_hint" /\ h.pc = "counts"
  /\ CountOf(StoredHints, ProblemKey(Contexts[h.ctx])) = MAX_HINTS_PER_PROBLEM

\* the step is the cap check of the handler in flight
CapCheckTaken == \A g \in BagToSet(handlers') : g.pc # "counts"

\* C2: in the persisted-count background, the request_hint that finds the stored count
\* of its problem at 3 responds exactly {ok: true, action: 'ask_for_code'} (no hint
\* text), leaves the hints map as it is, posts nothing to the backend and sends no
\* show_hint_in_page.
C2_CapAsksForCode ==
  [][\A h \in Inflight :
       (AtCapCheck(h) /\ CapCheckTaken) =>
          /\ resp' = [type |-> "request_hint", ok |-> TRUE, action |-> "ask_for_code"]
          /\ StoredHints' = StoredHints
          /\ post' = None
          /\ pageMsg' = None
          /\ handlers' = EmptyBag]_vars

\* the fourth request for a problem has been answered with ask_for_code
C2_Witness ==
  /\ impl = "persisted"
  /\ RespType = "request_hint" /\ Get(resp, "action", "") = "ask_for_code"
  /\ \E k \in Keys : CountOf(StoredHints, k) = MAX_HINTS_PER_PROBLEM

\* C3: in the server-first background, a request_hint that finds the tab's counter at
\* 3 makes no backend call, leaves the counter at 3 and responds ask_for_code with an
\* empty hint.
C3_ServerFirstCap ==
  impl = "serverfirst" =>
    /\ \A h \in Inflight : (h.kind = "request_hint" /\ h.prev >= 3) => h.pc # "fetch"
    /\ \A t \in Tabs : HintsGiven(t) <= 3
    /\ (HintResponse /\ Get(resp, "action", "") = "ask_for_code") => resp.hint = ""

\* C4: in the persisted-count background, with request_hint handlers interleaving at
\* their awaits, the hints delivered for a problem since the last reset never exceed 3.
C4_DeliveredAtMostCap ==
  impl = "persisted" => \A k \in Keys : delivered[k] <= MAX_HINTS_PER_PROBLEM

\* C5: while the stored consent is false, no POST to the backend carries a non-empty
\* code snippet.
C5_NoSnippetWithoutConsent ==
  (post # None /\ post.body.snippet # <<>>) => Allows(StoredSettings)

\* C6: a request that started after the user switched the stored consent off issues no
\* backend request.
C6_NoPostAfterSwitchOff ==
  \A h \in Inflight : Get(h, "sinceOff", FALSE) => h.pc # "fetch"

\* the user has stored no settings so far
NoUserSettings == budget.user = MaxUserActions /\ popup = PopupIdle

\* C7: as long as the user has stored no settings, the settings a handler loads are
\* allowSendCodeToServer = false with the default serverUrl, and no backend call is
\* issued.
C7_PrivateByDefault ==
  NoUserSettings =>
    /\ SLoadSettings = [allowSendCodeToServer |-> FALSE, serverUrl |-> DEFAULT_SERVER]
    /\ \A h \in Inflight :
         /\ Get(h, "settings", EmptyObj) \in
              {EmptyObj, [allowSendCodeToServer |-> FALSE, serverUrl |-> DEFAULT_SERVER]}
         /\ h.pc \notin {"scs_get", "scs_set", "fetch"}
    /\ post = None

\* the first request_hint has loaded its settings from a storage that holds none
C7_Witness ==
  /\ NoUserSettings
  /\ SETTINGS \notin DOMAIN storage
  /\ \E h \in Inflight : h.kind = "request_hint" /\ h.pc = "es_set"
                           /\ ~h.settings.allowSendCodeToServer

\* the awaited backend call of this step failed: network error, timeout, non-2xx status
BackendFailed == reply # None /\ ~reply.ok /\ reply.why \in {"network_error", "timeout", "http_500"}

\* C8: a request_hint whose backend call failed answers {ok: true} with a non-empty
\* locally generated hint.
C8_FailureFallsBackToLocalHint ==
  /\ (BackendFailed /\ RespType = "request_hint") =>
        Get(resp, "ok", FALSE) /\ Get(resp, "hint", "") # ""
  /\ \A h \in Inflight :
        (BackendFailed /\ h.kind = "request_hint" /\ h.pc = "write") =>
           h.hintText = generateHint(Contexts[h.ctx])

\* the 2xx reply of this step has no usable hint field
NoUsableHint == reply # None /\ reply.ok /\ Get(reply.body, "hint", "") = ""

\* C9: in the server-first background, a 2xx reply without a usable hint field leads to
\* the non-empty local fallback hint for popup and page.
C9_UnusableReplyFallsBack ==
  (impl = "serverfirst" /\ NoUsableHint /\ HintResponse) =>
     /\ Get(resp, "hint", "") # ""
     /\ Get(pageMsg, "hintText", "") # ""

\* C10: when reset_hints completes, the stored hints map and the hint cache are gone,
\* every counter is 0, and the stored settings are what they were.
C10_ResetKeepsSettings ==
  [][ResetCompletes =>
       /\ StoredHints' = EmptyObj
       /\ HINT_CACHE \notin DOMAIN storage'
       /\ (impl = "serverfirst" => \A t \in Tabs : HintsGiven(t)' = 0)
       /\ (SETTINGS \in DOMAIN storage') = (SETTINGS \in DOMAIN storage)
       /\ StoredSettings' = StoredSettings]_vars

\* a reset has completed after an earlier request, with consent stored
C10_Witness ==
  /\ RespType = "reset_hints"
  /\ Allows(StoredSettings)
  /\ budget.requests <= MaxRequests - 2

\* C11: a reset_hints handled right after another reset_hints leaves the stored hints
\* map, the hint cache, the in-memory counters and the settings as the first one left
\* them.
C11_ResetIdempotent ==
  [][(ResetCompletes /\ resets >= 1) => (storage' = storage /\ mem' = mem)]_vars

\* two resets in a row have completed, after an earlier request, with consent stored
C11_Witness ==
  /\ resets = 2
  /\ RespType = "reset_hints"
  /\ Allows(StoredSettings)
  /\ budget.requests <= MaxRequests - 3

\* the step is an idle check
IdleCheckRuns == Get(event, "type", "")' = "checkIdleLoop"

\* C12: an idle check on a tab that is not stuck and whose last activity T is positive
\* leaves it not stuck when it runs before T + 3 minutes, and marks it stuck with reason
\* 'idle' when it runs after T + 3 minutes.
C12_IdleCheck ==
  [][IdleCheckRuns =>
       \A t \in DOMAIN mem.tabState :
          LET s == mem.tabState[t]
              T == LastActivity(s)
              after == mem.tabState'[t]
          IN (~IsStuck(s) /\ T > 0) =>
               /\ (clock < T + 180000) => ~IsStuck(after)
               /\ (clock > T + 180000) =>
                     (IsStuck(after) /\ Get(after, "failureReason", NULL) = "idle")]_vars

\* an idle check has marked a tab more than 3 minutes after its last activity
C12_Witness ==
  /\ Get(event, "type", "") = "checkIdleLoop"
  /\ \E t \in DOMAIN mem.tabState :
        /\ IsStuck(mem.tabState[t]) /\ mem.tabState[t].failureReason = "idle"
        /\ clock = LastActivity(mem.tabState[t]) + 181000

\* a request_hint handler for the problem two-sum
ForTwoSum(h) ==
  /\ h.kind = "request_hint"
  /\ h.ctx # NoCtx /\ ProblemKey(Contexts[h.ctx]) = "two-sum"

\* C13: in the persisted-count background, with consent never switched on, a
\* request_hint for two-sum that finds the stored count at n < 3 returns the hash-map
\* hint and leaves the count at n + 1 (requests 1, 2, 3), and one that finds it at 3
\* returns ask_for_code without hint text and leaves the count at 3 (request 4).
C13_TwoSumScenario ==
  [][\A h \in Inflight :
       (impl = "persisted" /\ NoUserSettings /\ ForTwoSum(h) /\ HintResponse') =>
          LET n == CountOf(StoredHints, "two-sum")
              hashMapHint ==
                "Hint: Use a hash map to store seen values and check complements in one pass."
          IN IF n < 3
               THEN /\ resp' = [type |-> "request_hint", ok |-> TRUE, hint |-> hashMapHint]
                    /\ pageMsg'.hintText = hashMapHint
                    /\ CountOf(StoredHints, "two-sum")' = n + 1
               ELSE /\ resp' = [type |-> "request_hint", ok |-> TRUE,
                                action |-> "ask_for_code"]
                    /\ CountOf(StoredHints, "two-sum")' = 3]_vars

\* the fourth of four request_hint messages for two-sum has been answered
C13_Witness ==
  /\ impl = "persisted" /\ NoUserSettings
  /\ budget.requests = MaxRequests - 4
  /\ CountOf(StoredHints, "two-sum") = 3
  /\ RespType = "request_hint" /\ Get(resp, "action", "") = "ask_for_code"

\* the first n lines of a text that are not empty once trimmed, trimmed
RECURSIVE FirstTrimmed(_, _)
FirstTrimmed(lines, n) ==
  IF n = 0 \/ lines = <<>> THEN <<>>
  ELSE IF Trim(Head(lines)) = "" THEN FirstTrimmed(Tail(lines), n)
  ELSE <<Trim(Head(lines))>> \o FirstTrimmed(Tail(lines), n - 1)

\* the line as the persisted-count background lets it through: at most 200 characters,
\* then '...'
Capped(l) ==
  IF l = "total = total + a + a + a + ... (a line of 250 characters)"
    THEN "total = total + a + a + a + ... (its first 200 characters)..."
    ELSE l

\* the step answers a request_code_snippet of handler h with a local excerpt
LocalExcerptOf(h) ==
  /\ h.kind = "request_code_snippet" /\ h.ctx # NoCtx
  /\ RespType' = "request_code_snippet" /\ resp'.ok
  /\ post = None /\ reply' = None

\* C14 as stated: the local excerpt is exactly the first three lines that are non-empty
\* after trimming, in their order.
C14_ExcerptIsFirstThreeLines ==
  [][\A h \in Inflight :
       LocalExcerptOf(h) => resp'.snippet = FirstTrimmed(Contexts[h.ctx].snippet, 3)]_vars

\* C14, amended: the local excerpt is the first three lines that are non-empty after
\* trimming, trimmed, in their order; the persisted-count background moreover cuts
\* each of them that is longer than 200 characters to its first 200 characters
\* followed by '...'.
C14_ExcerptIsFirstThreeLinesCapped ==
  [][\A h \in Inflight :
       LocalExcerptOf(h) =>
          LET first == FirstTrimmed(Contexts[h.ctx].snippet, 3)
          IN resp'.snippet = IF impl = "persisted"
                               THEN [i \in DOMAIN first |-> Capped(first[i])]
                               ELSE first]_vars

\* the excerpt of a snippet with a blank line and more than three other lines
C14_Witness ==
  /\ RespType = "request_code_snippet"
  /\ Get(resp, "snippet", <<>>) = <<"a", "return []", "a">>


\* C15: in the server-first background, a request_hint for a tab that was shown three
\* hints since the last reset is answered with ask_for_code, a restart of the service
\* worker in between included.
C15_CountSurvivesRestart ==
  [][\A h \in Inflight :
       (impl = "serverfirst" /\ h.kind = "request_hint" /\ h.tab \in Tabs
          /\ shown[h.tab] >= 3 /\ HintResponse') => Get(resp', "action", "") = "ask_for_code"]_vars


\* the step answers a request_hint with a hint
ReturnsHint ==
  /\ HintResponse'
  /\ Has(resp', "hint") /\ Get(resp', "action", "") # "ask_for_code"

\* C16: in the server-first background the hint counts are per problem: a hint
\* delivered for one problem leaves the count that a request for any other problem
\* starts from unchanged, in every tab, the tab of the delivery included.
C16_CountsPerProblem ==
  [][\A h \in Inflight :
       (impl = "serverfirst" /\ h.kind = "request_hint" /\ h.ctx # NoCtx /\ ReturnsHint)
       => \A q \in Keys \ {ProblemKey(Contexts[h.ctx])}, t \in Tabs :
            SCountFor(q, t)' = SCountFor(q, t)]_vars

\* the count a request_hint handler finds when it is answered: the stored count of its
\* problem (persisted-count) or the counter of its tab (server-first)
CountOnEntry(h) ==
  IF impl = "persisted" THEN CountOf(StoredHints, ProblemKey(Contexts[h.ctx]))
  ELSE HintsGiven(h.tab)

\* C17: with messages handled one at a time, a request_hint is answered with action
\* ask_for_code exactly when the count it found was 3 or more; below 3 the answer
\* carries a non-empty hint, at 3 or more it carries no hint text.
C17_AskForCodeIffCountAtCap ==
  [][\A h \in Inflight :
       (h.kind = "request_hint" /\ h.ctx # NoCtx /\ HintResponse') =>
          LET n == CountOnEntry(h)
          IN /\ (Get(resp', "action", "") = "ask_for_code") <=> (n >= 3)
             /\ (n < 3) => Get(resp', "hint", "") # ""
             /\ (n >= 3) => Get(resp', "hint", "") = ""]_vars


\* C18: in the server-first background the hintLevel of the backend payload and the
\* level of the show_hint_in_page message of a request_hint are min(prev + 1, 3), prev
\* being the counter of the request's tab; as long as the service worker keeps running,
\* the levels of a tab after a reset are 1, 2, 3 and then stay 3.
C18_HintLevel ==
  [][\A h \in Inflight :
       (impl = "serverfirst" /\ h.kind = "request_hint" /\ h.tab \in Tabs) =>
          LET prev == HintsGiven(h.tab)
              level == IF prev + 1 < 3 THEN prev + 1 ELSE 3
          IN /\ (h.pc = "settings" /\ post' # None) => post'.body.hintLevel = level
             /\ Get(pageMsg', "type", "") = "show_hint_in_page" =>
                  /\ pageMsg'.level = level
                  /\ budget.restarts = MaxRestarts =>
                       pageMsg'.level = IF shown[h.tab] < 3 THEN shown[h.tab] + 1 ELSE 3]_vars

\* the backend was asked for a level-3 hint by a request beyond the third of its tab,
\* and the page is shown level 3 again
C18_Witness ==
  /\ impl = "serverfirst"
  /\ Get(reply, "ok", FALSE)
  /\ Get(pageMsg, "type", "") = "show_hint_in_page"
  /\ pageMsg.level = 3 /\ pageMsg.askForCode
  /\ HintsGiven(pageMsg.tab) = 4


\* the step raises a hint count: a stored count of a problem (persisted-count and
\* rate-limited backgrounds) or the counter of a tab (server-first)
CountRaised ==
  IF impl = "serverfirst"
    THEN \E t \in Tabs : HintsGiven(t)' > HintsGiven(t)
    ELSE \E k \in Keys : CountOf(StoredHints, k)' > CountOf(StoredHints, k)

\* C19: a hint count is raised only in a step that has the hint text and returns it
\* to the caller; no count is raised before the text is obtained or by a request that
\* is answered without a hint.
C19_IncrementOnlyWithHint == [][CountRaised => ReturnsHint]_vars


\* the hint counts of the background: the stored map of problems (persisted-count) or
\* the map of tabs in memory (server-first)
AllCounts == IF impl = "serverfirst" THEN mem.hintsGivenMap ELSE StoredHints

\* the counter a request_hint handler counts on
CounterOf(h) == IF impl = "serverfirst" THEN h.tab ELSE ProblemKey(Contexts[h.ctx])

\* the step ends a request_hint with no_tab or no_context
EndsWithoutContext ==
  /\ RespType' = "request_hint"
  /\ Get(resp', "error", "") \in {"no_tab", "no_context"}

\* C20: with messages handled one at a time, a request_hint that returns a hint raises
\* its count by exactly 1 and changes no other count, the hint coming from the backend
\* or from the fallback; a request_hint that has no context, up to and including its
\* no_tab or no_context answer, changes no count, posts nothing to the backend and
\* sends nothing to the page.
C20_ExactlyOnePerHint ==
  [][/\ \A h \in Inflight :
          (h.kind = "request_hint" /\ ReturnsHint) =>
             AllCounts' = Put(AllCounts, CounterOf(h), Get(AllCounts, CounterOf(h), 0) + 1)
     /\ (\/ EndsWithoutContext
         \/ \E g \in BagToSet(handlers') : g.kind = "request_hint" /\ g.ctx = NoCtx)
        => /\ AllCounts' = AllCounts
           /\ post' = None /\ pageMsg' = None]_vars

\* the backend call of a request_hint has failed and the local fallback hint was
\* returned, the tab's first
C20_Witness ==
  /\ impl = "serverfirst"
  /\ reply # None /\ ~Get(reply, "ok", TRUE)
  /\ HintResponse /\ Get(resp, "hint", "") # ""
  /\ HintsGiven(pageMsg.tab) = 1


\* the step answers a request of the server-first background with no_context
SNoContext == impl = "serverfirst" /\ Get(resp', "error", "") = "no_context"

\* the step resolves the context collection of handler h with a context
SResolves(h) ==
  /\ h.pc \in {"ctx1", "ctx2"}
  /\ \E g \in BagToSet(handlers') : g.pc = "settings" /\ g.ctx # NoCtx

\* C21: in the server-first background a context collection sends collect_context at
\* most twice and injects the content script at most once; it resolves with the first
\* answer without injecting, or with the second answer after one injection; and a
\* request fails with no_context only after both collect_context messages, with one
\* injection in between, got no answer.
C21_CollectWithRetry ==
  [][impl = "serverfirst" =>
       /\ \A h \in Inflight :
            /\ h.sends <= 2 /\ h.injects <= 1
            /\ SResolves(h) =>
                 \/ h.pc = "ctx1" /\ h.sends = 1 /\ h.injects = 0
                 \/ h.pc = "ctx2" /\ h.sends = 2 /\ h.injects = 1
       /\ SNoContext =>
            \E h \in Inflight : h.pc = "ctx2" /\ h.sends = 2 /\ h.injects = 1]_vars


\* C22: in the persisted-count background every request_hint that has its tab and its
\* context is eventually answered, also when the backend never answers the POST.
C22_HintRequestAnswered ==
  (\E h \in Inflight : h.kind = "request_hint" /\ h.ctx # NoCtx)
    ~> (RespType = "request_hint")


\* C23: in the persisted-count background, with handlers interleaving at their awaits,
\* the stored count of a problem does not decrease unless a reset completes, and a
\* hint delivered for a problem whose stored count is below 3 raises that count by one.
C23_NoLostIncrement ==
  [][impl = "persisted" =>
       \A k \in Keys :
         LET count == CountOf(StoredHints, k)
         IN /\ ~ResetCompletes => CountOf(StoredHints, k)' >= count
            /\ (delivered'[k] = delivered[k] + 1 /\ count < 3)
                 => CountOf(StoredHints, k)' = count + 1]_vars


\* the step is the setHintCounts write of request_hint handler h, which then answers
WritesCounts(h) ==
  /\ impl = "persisted" /\ h.kind = "request_hint" /\ h.pc = "write"
  /\ Finish(h)

\* C24: in the persisted-count background the write of a request_hint for a problem
\* leaves the stored count of every other problem as it was, overlapping requests
\* included.
C24_OtherCountsUntouched ==
  [][\A h \in Inflight :
       WritesCounts(h) =>
         \A k \in Keys \ {ProblemKey(Contexts[h.ctx])} :
           CountOf(StoredHints, k)' = CountOf(StoredHints, k)]_vars


\* C25: in the persisted-count background, when a request_hint writes its map back
\* after a reset_hints has removed the stored map, and nothing else is in flight, the
\* stored map holds no count from before the reset: every count is at most 1 and only
\* the problem of the request is counted.
C25_ResetWinsOverInflight ==
  [][\A h \in Inflight :
       (WritesCounts(h) /\ ~Has(storage, HINTS_MAP) /\ BagCardinality(handlers) = 1) =>
         \A k \in Keys :
           /\ CountOf(StoredHints, k)' <= 1
           /\ CountOf(StoredHints, k)' > 0 => k = ProblemKey(Contexts[h.ctx])]_vars


\* the step is a write of the user's settings: the popup toggle's set takes effect, or
\* the options page saves
UserSettingsStep ==
  \/ popup.pc = "set" /\ popup' = PopupIdle
  \/ budget'.user < budget.user /\ popup' = popup

\* C26: the stored consent changes only in a step that writes the user's settings;
\* no step of a request handler, ensureSettings' write-back included, changes it.
C26_ConsentChangesOnlyByUser ==
  [][Allows(StoredSettings)' # Allows(StoredSettings) => UserSettingsStep]_vars


\* the step is the arrival of a request_hint at the server-first background
SRequestArrives == impl = "serverfirst" /\ Get(event', "type", "") = "request_hint"

\* C27: in the server-first background the target tab of a request_hint is msg.tabId
\* if given, else the sender's tab, else the active tab: on arrival the context
\* collection starts for msg.tabId or else for the sender's tab, or the active tab is
\* queried when there is neither; and the hint is shown in the tab of its request.
C27_TargetTab ==
  [][/\ SRequestArrives =>
          LET target == IF event'.tabId # NoTab THEN event'.tabId ELSE event'.senderTab
          IN \E g \in BagToSet(handlers') :
               IF target = NoTab THEN g.pc = "query"
               ELSE g.pc = "ctx1" /\ g.tab = target
     /\ \A h \in Inflight :
          (impl = "serverfirst" /\ Get(pageMsg', "type", "") = "show_hint_in_page")
            => pageMsg'.tab = h.tab]_vars


\* C28: in every state of the session tracker a tab with stuck = true has a reason
\* that is neither empty nor null, and a tab whose stuck flag is false (it was
\* cleared) has the reason null.
C28_StuckHasReason ==
  impl = "persisted" =>
    \A t \in DOMAIN mem.tabState :
      LET s == mem.tabState[t]
      IN /\ IsStuck(s) => (Has(s, "failureReason") /\ s.failureReason \notin {"", NULL})
         /\ (Has(s, "stuck") /\ ~s.stuck) => Get(s, "failureReason", "") = NULL

\* a passed submission has just cleared tab 1 while tab 2 is stuck as idle
C28_Witness ==
  /\ Get(event, "type", "") = "submission_result" /\ event.status = "pass"
  /\ Has(TabEntry(1), "stuck") /\ ~TabEntry(1).stuck /\ TabEntry(1).failureReason = NULL
  /\ IsStuck(TabEntry(2)) /\ TabEntry(2).failureReason = "idle"


\* the step is an editor_input of tab t, which is stuck with reason 'idle'
InputOnIdleTab(t) ==
  /\ Get(event', "type", "") = "editor_input" /\ event'.tab = t
  /\ IsStuck(TabEntry(t)) /\ TabEntry(t).failureReason = "idle"

\* the step is an idle check that marks tab t
IdleCheckMarks(t) ==
  /\ IdleCheckRuns
  /\ ~IsStuck(TabEntry(t)) /\ IsStuck(TabEntry(t))'

\* C29: an editor_input for a tab that is stuck with reason 'idle' sets lastInputTs to
\* the time of the input and clears the stuck state (stuck false, reason null); and an
\* idle check marks a tab only when 3 minutes have passed since its last input.
C29_InputClearsIdle ==
  [][\A t \in Tabs :
       /\ InputOnIdleTab(t) =>
            /\ TabEntry(t)'.lastInputTs = clock
            /\ ~TabEntry(t)'.stuck /\ TabEntry(t)'.failureReason = NULL
       /\ IdleCheckMarks(t) => clock - Get(TabEntry(t), "lastInputTs", 0) >= 180000]_vars

\* tab 2, marked idle before, has been cleared by its editor_input
C29_Witness ==
  /\ Get(event, "type", "") = "editor_input" /\ event.tab = 2
  /\ Has(TabEntry(2), "stuck") /\ ~TabEntry(2).stuck /\ TabEntry(2).failureReason = NULL
  /\ TabEntry(2).lastInputTs = clock /\ clock >= START_MS + IDLE_MS


\* tab t is stuck because of a failed submission
FailureStuck(t) ==
  /\ t \in DOMAIN mem.tabState
  /\ IsStuck(TabEntry(t)) /\ TabEntry(t).failureReason # "idle"

\* C30: a tab that is stuck because of a failed submission stays stuck with the same
\* reason through editor_input, run_or_submit_clicked and idle checks; it stops being
\* stuck only by a submission_result with status pass for it or by its removal; and
\* an idle check leaves the reason of every stuck tab as it is.
C30_FailureStuckStays ==
  [][\A t \in Tabs :
       LET type == Get(event', "type", "")
           kept == /\ IsStuck(TabEntry(t))'
                   /\ TabEntry(t)'.failureReason = TabEntry(t).failureReason
       IN /\ (FailureStuck(t)
                /\ type \in {"editor_input", "run_or_submit_clicked", "checkIdleLoop"})
              => kept
          /\ (FailureStuck(t) /\ ~IsStuck(TabEntry(t))') =>
               \/ type = "submission_result" /\ event'.tab = t /\ event'.status = "pass"
               \/ type = "tab_removed" /\ event'.tab = t
          /\ (IdleCheckRuns /\ IsStuck(TabEntry(t))) => kept]_vars

\* an idle check has run on tab 1, stuck on a wrong answer and without activity for 3
\* minutes, and the reason is still the wrong answer
C30_Witness ==
  /\ Get(event, "type", "") = "checkIdleLoop"
  /\ IsStuck(TabEntry(1)) /\ TabEntry(1).failureReason = "Wrong Answer"
  /\ clock - LastActivity(TabEntry(1)) >= IDLE_MS

----------------------------------------------------------------------------
(* The session trackers of both backgrounds *)

\* the tracker holds tab t as stuck
TrackerStuck(t) ==
  IF impl = "ratelimit" THEN ensureTab(t).isStuck ELSE IsStuck(TabEntry(t))

\* the tracker holds a failure as the reason of tab t: the reason of the entry in
\* src/background.js, a recorded failure in src/unnamed/part_001
TrackerHasFailure(t) ==
  IF impl = "ratelimit" THEN Len(ensureTab(t).failures) >= 1
  ELSE Get(TabEntry(t), "failureReason", NULL) \notin {NULL, "idle"}

\* the step handles a submission_result with this status sent by tab t
SubmissionOf(t, status) ==
  /\ Get(event', "type", "") = "submission_result"
  /\ event'.tab = t /\ event'.status = status

\* C31: a submission_result with status fail leaves the tab stuck with a failure as
\* the reason, whatever its state was before (a single failure is enough); one with
\* status pass leaves the tab not stuck, whatever its state and reason were before.
C31_FailMarksPassClears ==
  [][\A t \in Tabs :
       /\ SubmissionOf(t, "fail") => TrackerStuck(t)' /\ TrackerHasFailure(t)'
       /\ SubmissionOf(t, "pass") => ~TrackerStuck(t)']_vars

\* the first failure of a tab has marked it stuck
C31_Witness ==
  /\ impl = "ratelimit"
  /\ Get(event, "type", "") = "submission_result" /\ event.status = "fail"
  /\ event.tab = 1 /\ TrackerStuck(1) /\ Len(ensureTab(1).failures) = 1

\* the step is an idle check of the tracker
AnyIdleCheckRuns == Get(event', "type", "") \in {"checkIdleLoop", "performIdleCheck"}

\* the time of the last input or submit activity recorded for tab t, 0 when none is
TrackerActivity(t) ==
  IF impl = "ratelimit" THEN ensureTab(t).lastInputTs ELSE LastActivity(TabEntry(t))

\* C32: an idle check never marks a tab for which no input or submit activity is
\* recorded: such a tab that is not stuck before the check is not stuck after it,
\* however much time has passed.
C32_NoActivityNeverIdle ==
  [][AnyIdleCheckRuns =>
       \A t \in Tabs :
          TrackerActivity(t) = 0 /\ ~TrackerStuck(t) => ~TrackerStuck(t)']_vars

\* an idle check has run more than 3 minutes after the start over a tab that has an
\* entry without activity, and has left it not stuck
C32_Witness ==
  /\ impl = "ratelimit"
  /\ Get(event, "type", "") = "performIdleCheck"
  /\ 1 \in DOMAIN mem.tabState /\ TrackerActivity(1) = 0 /\ ~TrackerStuck(1)
  /\ clock >= START_MS + IDLE_MS

\* the step handles an activity message (editor_input, run_or_submit_clicked or
\* submission_result) sent by tab t
ActivityOf(t) ==
  /\ Get(event', "type", "") \in {"editor_input", "run_or_submit_clicked", "submission_result"}
  /\ event'.tab = t

\* the step handles the removal of tab t
RemovalOf(t) == Get(event', "type", "") = "tab_removed" /\ event'.tab = t

\* C33: the removal of a tab leaves the tracker without an entry for it; and an
\* entry appears in the tracker only in the step that handles activity sent by its
\* tab, so that, the tracker being empty at the start, its entries at every moment
\* are of tabs that have sent activity and have not been closed since.
C33_EntriesOfOpenActiveTabs ==
  [][\A t \in Tabs :
       /\ RemovalOf(t) => t \notin DOMAIN mem.tabState'
       /\ t \in DOMAIN mem.tabState' /\ t \notin DOMAIN mem.tabState => ActivityOf(t)]_vars

\* tab 1 had an entry and has been removed while tab 2 keeps its entry
C33_Witness ==
  /\ impl = "persisted"
  /\ Get(event, "type", "") = "tab_removed" /\ event.tab = 1 /\ event.held
  /\ DOMAIN mem.tabState = {2}

----------------------------------------------------------------------------
(* Code excerpts *)

\* every hint count a background keeps: the stored map of problems, and the map in
\* memory (of tabs in the server-first, of problems in the rate-limited background)
EveryCount ==
  <<StoredHints,
    CASE impl = "serverfirst" -> mem.hintsGivenMap
      [] impl = "ratelimit" -> mem.persistedHints
      [] OTHER -> EmptyObj>>

\* the step is taken by the handler of a request_code_snippet: it starts, resumes or
\* ends one, or answers the request at once
SnippetStep ==
  \/ /\ handlers' # handlers
     /\ \E h \in Inflight \cup Inflight' : h.kind = "request_code_snippet"
  \/ RespType' = "request_code_snippet"

\* C34: no step of the handling of a request_code_snippet changes a hint count, on
\* any path (backend excerpt, local excerpt, no_tab, no_context), in any of the three
\* backgrounds.
C34_SnippetKeepsCounts == [][SnippetStep => EveryCount' = EveryCount]_vars

\* an excerpt is returned for a problem that has hints counted
C34_Witness ==
  /\ RespType = "request_code_snippet" /\ Get(resp, "ok", FALSE)
  /\ impl = "persisted"
  /\ \E k \in Keys : CountOf(StoredHints, k) >= 1

\* C35: when the collected snippet is empty or has only blank lines, the excerpt that
\* request_code_snippet generates locally is not the empty string.
C35_BlankSnippetGetsStarter ==
  [][\A h \in Inflight :
       (LocalExcerptOf(h) /\ FirstTrimmed(Contexts[h.ctx].snippet, 3) = <<>>)
       => resp'.snippet # <<>>]_vars

----------------------------------------------------------------------------
(* The cache and the rate limit of src/unnamed/part_001 *)

\* a POST for problem p has just been issued
Posted(p) == post # None /\ post.body.problemId = p

\* the time of the last call for problem p that the worker remembers, 0 when none
LastCall(p) == Get(mem.recentServerCalls, p, 0)

GetHintFor(p) == CountOf(mem.persistedHints, p)' > CountOf(mem.persistedHints, p)

Cached(p) == Get(mem.hintCache, p, None)

\* the entry of problem p is older than 5 minutes
Stale(p) == Cached(p) # None /\ clock - Cached(p).ts > HINT_CACHE_TTL_MS

\* the step ends the fetch of handler h
FetchEnds(h) == h.pc = "fetch" /\ reply' # None /\ Finish(h)

\* C37: getHint, called for a problem whose cache entry is at most 5 minutes old,
\* returns the cached hint and posts nothing; with an older entry it returns the
\* cached hint, posting nothing, when the request is rate-limited, and otherwise
\* starts a fetch, whose end returns the hint of the backend, cached anew, or the
\* template hint, never the old entry.
C37_CacheServedWhileFresh ==
  [][/\ \A p \in Keys :
          GetHintFor(p) =>
            /\ (Cached(p) # None /\ clock - Cached(p).ts <= HINT_CACHE_TTL_MS)
                 => post' = None /\ resp'.hint = Cached(p).hint
            /\ Stale(p) /\ clock - LastCall(p) < MIN_TIME_BETWEEN_SERVER_CALLS_MS
                 => post' = None /\ resp'.hint = Cached(p).hint
            /\ Stale(p) /\ clock - LastCall(p) >= MIN_TIME_BETWEEN_SERVER_CALLS_MS
                 => Posted(p)' /\ resp' = None
     /\ \A h \in Inflight :
          FetchEnds(h) =>
            LET c == Contexts[h.ctx]
            IN IF reply'.ok
                 THEN /\ resp'.hint = reply'.body.hint
                      /\ Cached(ProblemKey(c))' = [hint |-> reply'.body.hint, ts |-> clock]
                 ELSE /\ resp'.hint = generateTemplateHint(c.snippet, c.failure)
                      /\ UNCHANGED mem]_vars

\* the hint of an entry older than 5 minutes has been returned to a rate-limited
\* request; the other problems have no entry
C37_Witness ==
  /\ RespType = "request_hint" /\ post = None
  /\ \E p \in Keys :
       /\ Stale(p) /\ clock - LastCall(p) < MIN_TIME_BETWEEN_SERVER_CALLS_MS
       /\ Get(resp, "hint", "") = Cached(p).hint
       /\ DOMAIN mem.hintCache = {p}

\* C38: in the rate-limited background, while allowSendCodeToServer is false no
\* request of any kind is sent to the hint server.
C38_NoPostWhileConsentOff ==
  (impl = "ratelimit" /\ post # None)
  => Get(mem.settings, "allowSendCodeToServer", FALSE)

====
